---------------------------- MODULE Spec2Model ----------------------------
(***************************************************************************)
(* Model of the logistics decision engine: the load assignment engine      *)
(* (src/src/algorithms/load_assignment.py), the route optimizer            *)
(* (src/src/algorithms/route_optimizer.py), the decision evaluator         *)
(* (src/src/decision/evaluator.py) and the control loop                    *)
(* (src/src/orchestration/graph.py and the phase nodes).                   *)
(*                                                                         *)
(* Numbers.  Locations lie on one meridian and are given as kilometres of  *)
(* arc from a reference point, so that the Haversine distance of           *)
(* Location.distance_to is |a - b| km.  Weights and capacities are in      *)
(* units of 1000 kg, fuel levels in percent, deadlines in minutes after    *)
(* the instant of the call (datetime.utcnow() is taken as one instant for  *)
(* the duration of a call).  Money is kept in units of 1/12000 dollar so   *)
(* that both cost formulas of the code are integers.                       *)
(***************************************************************************)
EXTENDS Integers, Sequences, FiniteSets, TLC

VARIABLES
    trucks,         \* assign_loads_to_trucks: argument trucks
    loads,          \* assign_loads_to_trucks: argument loads
    strategy,       \* assign_loads_to_trucks: argument strategy ("" before the call)
    solution,       \* the AssignmentSolution returned (NoSolution before the call)
    assign_exc,     \* exception raised by the call ("none" when it returned)
    scenarios,      \* evaluate_scenarios: argument scenarios
    threshold_arg,  \* DecisionEvaluator: argument confidence_threshold
    decision_result,\* the DecisionResult returned (NoResult before the call)
    evaluated,      \* which call of evaluate_scenarios was made ("no": none yet)
    route_truck,    \* optimize_route: argument truck
    route_loads,    \* optimize_route: argument loads
    route,          \* the OptimizedRoute returned (NoRoute before the call)
    route_exc,      \* exception raised by optimize_route ("none" when it returned)
    route_called,   \* optimize_route has been called
    rerun,          \* assign_loads_to_trucks was called again on the marked loads
    reassignments,  \* the list returned by optimize_existing_assignments (NotOptimized before the call)
    state,          \* control loop: the AgentState passed from node to node
    node,           \* control loop: the node the graph runs next ("END": finished)
    transition,     \* control loop: what should_continue returned in this cycle
    max_cycles,     \* control loop: argument max_cycles of run_control_loop
    raised,         \* control loop: the phases that raised in the current cycle
    cycle_trace,    \* control loop: the phases run so far in the current cycle
    outcome,        \* control loop: how the external calls of the node run last ended
    fleet,          \* state_manager.trucks: the Truck objects shared with the update loop
    moves,          \* iterations of _position_update_loop that moved a truck
    created,        \* the Decision object created last, with the reliability of its source scenario
    seed_tour,      \* _two_opt_improve: argument tour
    tour_matrix,    \* _two_opt_improve: argument distance_matrix
    improved_tour,  \* the tour returned by _two_opt_improve (<<>> before the call)
    gen_issue,      \* generate_scenarios: argument issue
    gen_trucks,     \* generate_scenarios: argument trucks
    gen_loads,      \* generate_scenarios: argument loads
    max_scenarios,  \* ScenarioGenerator: argument max_scenarios (-1 before the call)
    returned_scenarios, \* the scenarios returned by generate_scenarios
    generate_exc,   \* exception raised by generate_scenarios ("none" when it returned)
    request,        \* the DeliveryRequest kept in RequestProcessor.requests
    task,           \* where the task created for _process_request stands ("none": not created)
    sm_trucks,      \* state_manager.trucks
    sm_loads,       \* state_manager.loads
    ws_connected    \* ws_manager.active_connections is not empty

assignVars == <<trucks, loads, strategy, solution, assign_exc, rerun, reassignments>>
decideVars == <<scenarios, threshold_arg, decision_result, evaluated>>

routeVars == <<route_truck, route_loads, route, route_exc, route_called>>

loopVars == <<state, node, transition, max_cycles, raised, cycle_trace, outcome, fleet, moves>>

createVars == <<created>>

twoOptVars == <<seed_tour, tour_matrix, improved_tour>>

generateVars == <<gen_issue, gen_trucks, gen_loads, max_scenarios, returned_scenarios, generate_exc>>

requestVars == <<request, task, sm_trucks, sm_loads, ws_connected>>

vars == <<assignVars, decideVars, routeVars, loopVars, createVars, twoOptVars, generateVars, requestVars>>

-----------------------------------------------------------------------------
(* Bounds of the model *)

MaxTrucks == 2
MaxLoads == 2
MaxScenarios == 2

-----------------------------------------------------------------------------
(* Values standing for Python's None / float('inf') / datetime.max *)

\* optimize_existing_assignments has not been called
NotOptimized == <<<<"None", "None">>>>

NoLoc == -1                 \* current_location is None
NoDeadline == -1            \* delivery_deadline is None
NoTruck == "None"           \* assigned_truck_id is None
\* best_truck is None
NoneTruck == [id |-> "None", status |-> "None", current_location |-> -1,
              capacity_kg |-> 0, fuel_level_percent |-> 0]
\* a load that is None
NoneLoad == [id |-> "None", weight_kg |-> 0, priority |-> "None", pickup_location |-> -1,
             delivery_location |-> -1, delivery_deadline |-> -1, assigned_truck_id |-> "None"]

\* the first element of xs with the given id, or none when there is no such
FirstWithId(xs, id, none) ==
    IF \E k \in 1..Len(xs) : xs[k].id = id
    THEN xs[CHOOSE k \in 1..Len(xs) : xs[k].id = id /\ \A k2 \in 1..(k-1) : xs[k2].id # id]
    ELSE none

Inf == 1000000000           \* float('inf')
DatetimeMax == 100000000    \* datetime.max, as minutes after the call

NoSolution == [assignments |-> <<>>, total_cost |-> -1, unassigned_loads |-> <<>>,
               utilization_rate |-> <<-1, 1>>, on_time_probability |-> <<-1, 1>>]

\* no call of assign_loads_to_trucks is modelled
AssignIdle ==
    /\ trucks = <<>>
    /\ loads = <<>>
    /\ strategy = ""
    /\ solution = NoSolution
    /\ assign_exc = "none"
    /\ rerun = FALSE
    /\ reassignments = NotOptimized

\* no call of evaluate_scenarios is modelled
DecideIdle ==
    /\ scenarios = <<>>
    /\ threshold_arg = 0
    /\ decision_result = <<>>
    /\ evaluated = "no"

\* no call of optimize_route is modelled
RouteIdle ==
    /\ route_truck = NoneTruck
    /\ route_loads = <<>>
    /\ route = <<>>
    /\ route_exc = "none"
    /\ route_called = FALSE

\* no run of the control loop is modelled
LoopIdle ==
    /\ state = <<>>
    /\ node = "END"
    /\ transition = "none"
    /\ max_cycles = 0
    /\ raised = {}
    /\ cycle_trace = <<>>
    /\ outcome = "none"
    /\ fleet = <<>>
    /\ moves = 0

\* no creation of Decision objects is modelled
CreateIdle ==
    /\ created = <<>>

\* no call of _two_opt_improve is modelled
TwoOptIdle ==
    /\ seed_tour = <<>>
    /\ tour_matrix = <<>>
    /\ improved_tour = <<>>

\* no call of generate_scenarios is modelled
GenerateIdle ==
    /\ gen_issue = <<>>
    /\ gen_trucks = <<>>
    /\ gen_loads = <<>>
    /\ max_scenarios = -1
    /\ returned_scenarios = <<>>
    /\ generate_exc = "none"

\* no delivery request has been submitted
RequestIdle ==
    /\ request = <<>>
    /\ task = "none"
    /\ sm_trucks = <<>>
    /\ sm_loads = <<>>
    /\ ws_connected = FALSE

-----------------------------------------------------------------------------
(* Generic helpers *)

Abs(x) == IF x < 0 THEN -x ELSE x

Range(s) == {s[i] : i \in 1..Len(s)}

SeqsUpTo(S, n) == UNION {[1..k -> S] : k \in 0..n}

RECURSIVE SumSeq(_)
SumSeq(s) == IF s = <<>> THEN 0 ELSE Head(s) + SumSeq(Tail(s))

\* a list.remove(x) that leaves the list as it is
RemoveFirst_Kept(s, x) == s

\* list.remove(x): drop the first element equal to x
RECURSIVE RemoveFirst(_, _)
RemoveFirst(s, x) ==
    IF s = <<>> THEN <<>>
    ELSE IF Head(s) = x THEN Tail(s)
    ELSE <<Head(s)>> \o RemoveFirst(Tail(s), x)

-----------------------------------------------------------------------------
(* src/src/models.py *)

\* Location.distance_to on one meridian
distance_to(a, b) == Abs(a - b)

EligibleStatus == {"idle", "en_route"}

\* The trucks and loads the inputs are drawn from.  ids are given by the
\* position in the input list (T1, T2, ... / L1, L2, ...), so ids are
\* pairwise distinct.
TruckKinds ==
    { [status |-> "idle",     current_location |-> 0,     capacity_kg |-> 10, fuel_level_percent |-> 100],
      [status |-> "en_route", current_location |-> 60,    capacity_kg |-> 10, fuel_level_percent |-> 100],
      [status |-> "idle",     current_location |-> 0,     capacity_kg |-> 5,  fuel_level_percent |-> 80],
      [status |-> "idle",     current_location |-> 60,    capacity_kg |-> 10, fuel_level_percent |-> 20],
      [status |-> "en_route", current_location |-> 0,     capacity_kg |-> 10, fuel_level_percent |-> 5],
      [status |-> "loading",  current_location |-> 0,     capacity_kg |-> 10, fuel_level_percent |-> 100],
      [status |-> "idle",     current_location |-> NoLoc, capacity_kg |-> 10, fuel_level_percent |-> 100] }

LoadKinds ==
    { [weight_kg |-> 4, priority |-> "normal",   pickup_location |-> 0,  delivery_location |-> 30,
       delivery_deadline |-> NoDeadline, assigned_truck_id |-> NoTruck],
      [weight_kg |-> 8, priority |-> "low",      pickup_location |-> 30, delivery_location |-> 60,
       delivery_deadline |-> NoDeadline, assigned_truck_id |-> NoTruck],
      [weight_kg |-> 4, priority |-> "urgent",   pickup_location |-> 30, delivery_location |-> 0,
       delivery_deadline |-> 60,         assigned_truck_id |-> NoTruck],
      [weight_kg |-> 8, priority |-> "critical", pickup_location |-> 60, delivery_location |-> 30,
       delivery_deadline |-> 120,        assigned_truck_id |-> NoTruck],
      [weight_kg |-> 4, priority |-> "high",     pickup_location |-> 0,  delivery_location |-> 60,
       delivery_deadline |-> 120,        assigned_truck_id |-> NoTruck],
      [weight_kg |-> 4, priority |-> "urgent",   pickup_location |-> 0,  delivery_location |-> 30,
       delivery_deadline |-> 240,        assigned_truck_id |-> NoTruck],
      [weight_kg |-> 4, priority |-> "normal",   pickup_location |-> 0,  delivery_location |-> 30,
       delivery_deadline |-> NoDeadline, assigned_truck_id |-> "T9"] }

TruckId(i) == "T" \o ToString(i)
LoadId(j) == "L" \o ToString(j)

MkTruck(i, k) == [id |-> TruckId(i)] @@ k
MkLoad(j, k) == [id |-> LoadId(j)] @@ k

TruckLists == {[i \in 1..Len(ks) |-> MkTruck(i, ks[i])] : ks \in SeqsUpTo(TruckKinds, MaxTrucks)}
LoadLists == {[j \in 1..Len(ks) |-> MkLoad(j, ks[j])] : ks \in SeqsUpTo(LoadKinds, MaxLoads)}

-----------------------------------------------------------------------------
(* src/src/algorithms/load_assignment.py *)

\* total_distance of a truck with a location: truck -> pickup -> delivery
TotalDistance(truck, load) ==
    distance_to(truck.current_location, load.pickup_location)
        + distance_to(load.pickup_location, load.delivery_location)

\* _estimate_delivery_time, as minutes after now, times 3
\* (total_distance / 45 km/h = 4/3 minute per km; 4 hours without a location)
EstimateDeliveryTime3(truck, load) ==
    IF truck.current_location = NoLoc THEN 3 * 240
    ELSE 4 * TotalDistance(truck, load)

\* _check_assignment_constraints
\*   fuel_needed = total_distance * 0.3 ; fuel_available = 200 * fuel / 100 ;
\*   fuel_needed > fuel_available * 0.8   <=>   3 * total_distance > 16 * fuel
CheckAssignmentConstraints(truck, load) ==
    IF truck.capacity_kg < load.weight_kg THEN FALSE
    ELSE IF truck.current_location # NoLoc
            /\ 3 * TotalDistance(truck, load) > 16 * truck.fuel_level_percent THEN FALSE
    ELSE IF load.delivery_deadline # NoDeadline
            /\ EstimateDeliveryTime3(truck, load) > 3 * load.delivery_deadline THEN FALSE
    ELSE TRUE

\* priority_multiplier of _calculate_assignment_cost, times 10
PriorityMultiplier10(p) ==
    CASE p = "low" -> 12 [] p = "normal" -> 10 [] p = "high" -> 8
      [] p = "urgent" -> 6 [] p = "critical" -> 4 [] OTHER -> 10

\* _calculate_assignment_cost, in 1/12000 dollar:
\*   (d * 0.3 * 1.50 + d / 50 * 35) * multiplier = d * 1.15 * multiplier
CalculateAssignmentCost(truck, load) ==
    IF truck.current_location = NoLoc THEN Inf
    ELSE TotalDistance(truck, load) * 1380 * PriorityMultiplier10(load.priority)

\* _priority_to_numeric
PriorityToNumeric(p) ==
    CASE p = "low" -> 1 [] p = "normal" -> 2 [] p = "high" -> 3
      [] p = "urgent" -> 4 [] p = "critical" -> 5 [] OTHER -> 2

Max2(a, b) == IF a > b THEN a ELSE b
Min2(a, b) == IF a < b THEN a ELSE b

\* _calculate_assignment_confidence, times 10
CalculateAssignmentConfidence10(truck, load) ==
    LET c0 == 8
        c1 == IF truck.fuel_level_percent < 30 THEN c0 - 2
              ELSE IF truck.fuel_level_percent > 70 THEN c0 + 1 ELSE c0
        c2 == IF truck.current_location # NoLoc
                 /\ distance_to(truck.current_location, load.pickup_location) > 100
              THEN c1 - 1 ELSE c1
        c3 == IF load.priority \in {"critical", "urgent"} THEN c2 + 1 ELSE c2
    IN  Max2(3, Min2(10, c3))

\* _create_assignment (estimated_time_minutes times 5: distance / 50 km/h)
CreateAssignment(truck, load, cost) ==
    [truck_id |-> truck.id,
     load_id |-> load.id,
     estimated_cost |-> cost,
     estimated_time_minutes5 |->
        IF truck.current_location # NoLoc THEN 6 * TotalDistance(truck, load)
        ELSE 300 + 6 * distance_to(load.pickup_location, load.delivery_location),
     confidence_score10 |-> CalculateAssignmentConfidence10(truck, load),
     priority_score |-> PriorityToNumeric(load.priority)]

\* _calculate_on_time_probability, as <<sum of confidences * 10, count>>
CalculateOnTimeProbability(assignments) ==
    IF assignments = <<>> THEN <<10, 1>>
    ELSE <<SumSeq([k \in 1..Len(assignments) |-> assignments[k].confidence_score10]),
           Len(assignments)>>

\* _build_cost_matrix
BuildCostMatrix(ts, ls) ==
    [i \in 1..Len(ts) |-> [j \in 1..Len(ls) |->
        IF CheckAssignmentConstraints(ts[i], ls[j])
        THEN CalculateAssignmentCost(ts[i], ls[j]) ELSE Inf]]

\* order of the heap entries (cost, i, j, truck, load): (i, j) is unique
HeapLess(p, q) ==
    \/ p[1] < q[1]
    \/ p[1] = q[1] /\ p[2] < q[2]
    \/ p[1] = q[1] /\ p[2] = q[2] /\ p[3] < q[3]

HeapMin(heap) == CHOOSE p \in heap : \A q \in heap \ {p} : HeapLess(p, q)

\* the while loop of _optimal_assignment
RECURSIVE OptimalLoop(_, _, _, _)
OptimalLoop(ts, ls, heap, acc) ==
    IF heap = {} \/ ~(Cardinality(acc.assigned_loads) < Len(ls)) THEN acc
    ELSE LET p == HeapMin(heap)
             truck == ts[p[2]]
             load == ls[p[3]]
             take == /\ truck.id \notin acc.assigned_trucks
                     /\ load.id \notin acc.assigned_loads
                     /\ CheckAssignmentConstraints(truck, load)
         IN  OptimalLoop(ts, ls, heap \ {p},
                IF take
                THEN [assignments |-> Append(acc.assignments, CreateAssignment(truck, load, p[1])),
                      total_cost |-> acc.total_cost + p[1],
                      assigned_loads |-> acc.assigned_loads \cup {load.id},
                      assigned_trucks |-> acc.assigned_trucks \cup {truck.id}]
                ELSE acc)

\* [l.id for l in loads]: the filter on the taken ids is missing
IdsNotIn_Unfiltered(ls, taken) == [k \in 1..Len(ls) |-> ls[k].id]

\* [l.id for l in loads if l.id not in taken]
IdsNotIn(ls, taken) ==
    LET rest == SelectSeq(ls, LAMBDA l : l.id \notin taken)
    IN  [k \in 1..Len(rest) |-> rest[k].id]

AssignedLoadIds(assignments) == {assignments[k].load_id : k \in 1..Len(assignments)}
AssignedTruckIds(assignments) == {assignments[k].truck_id : k \in 1..Len(assignments)}

\* _optimal_assignment
OptimalAssignment(ts, ls) ==
    LET cost_matrix == BuildCostMatrix(ts, ls)
        heap == {<<cost_matrix[i][j], i, j>> : i \in 1..Len(ts), j \in 1..Len(ls)}
        pairs == {p \in heap : p[1] < Inf}
        r == OptimalLoop(ts, ls, pairs,
                [assignments |-> <<>>, total_cost |-> 0,
                 assigned_loads |-> {}, assigned_trucks |-> {}])
    IN  [assignments |-> r.assignments,
         total_cost |-> r.total_cost,
         unassigned_loads |-> IdsNotIn(ls, r.assigned_loads),
         utilization_rate |-> <<Cardinality(r.assigned_trucks), Len(ts)>>,
         on_time_probability |-> CalculateOnTimeProbability(r.assignments)]

\* order of the sort keys, which are tuples of two numbers
KeyLess(a, b) == a[1] < b[1] \/ (a[1] = b[1] /\ a[2] < b[2])

\* sorted(xs, key): stable, ascending in the key (Python's sorted); keys[i]
\* is the key of xs[i]; the element at input position i goes after every
\* element of smaller key and after the earlier elements of equal key
SortedBy(xs, keys) ==
    LET n == Len(xs)
        rank(i) == 1 + Cardinality({k \in 1..n :
                        \/ KeyLess(keys[k], keys[i])
                        \/ ~KeyLess(keys[i], keys[k]) /\ k < i})
    IN  [r \in 1..n |-> xs[CHOOSE i \in 1..n : rank(i) = r]]

\* l.delivery_deadline or datetime.max
DeadlineKey(l) == IF l.delivery_deadline = NoDeadline THEN DatetimeMax ELSE l.delivery_deadline

\* the sort key of _greedy_assignment: (priority_to_numeric, deadline or max)
GreedyKeys(ls) == [k \in 1..Len(ls) |-> <<PriorityToNumeric(ls[k].priority), DeadlineKey(ls[k])>>]

\* the sort key of _priority_first_assignment: deadline or max
DeadlineKeys(ls) == [k \in 1..Len(ls) |-> <<DeadlineKey(ls[k]), 0>>]

\* the inner loop of _greedy_assignment: first truck of minimum cost among
\* those that satisfy the constraints; <<NoneTruck, Inf>> if none
RECURSIVE GreedyBest(_, _, _, _)
GreedyBest(available, load, best_truck, best_cost) ==
    IF available = <<>> THEN <<best_truck, best_cost>>
    ELSE LET truck == Head(available)
             better == /\ CheckAssignmentConstraints(truck, load)
                       /\ CalculateAssignmentCost(truck, load) < best_cost
         IN  IF better
             THEN GreedyBest(Tail(available), load, truck, CalculateAssignmentCost(truck, load))
             ELSE GreedyBest(Tail(available), load, best_truck, best_cost)

\* the loop of _greedy_assignment over sorted_loads
RECURSIVE GreedyLoop(_, _)
GreedyLoop(sorted_loads, acc) ==
    IF sorted_loads = <<>> THEN acc
    ELSE LET load == Head(sorted_loads)
             best == GreedyBest(acc.available_trucks, load, NoneTruck, Inf)
         IN  GreedyLoop(Tail(sorted_loads),
                IF best[1] # NoneTruck
                THEN [assignments |-> Append(acc.assignments, CreateAssignment(best[1], load, best[2])),
                      total_cost |-> acc.total_cost + best[2],
                      available_trucks |-> RemoveFirst(acc.available_trucks, best[1])]
                ELSE acc)

\* the common tail of _greedy_assignment and _priority_first_assignment
ListSolution(ts, ls, r) ==
    [assignments |-> r.assignments,
     total_cost |-> r.total_cost,
     unassigned_loads |-> IdsNotIn(ls, AssignedLoadIds(r.assignments)),
     utilization_rate |-> <<Len(ts) - Len(r.available_trucks), Len(ts)>>,
     on_time_probability |-> CalculateOnTimeProbability(r.assignments)]

\* a greedy pass that offers only the first truck to the loads
GreedyAssignment_FirstTruckOnly(ts, ls) ==
    ListSolution(ts, ls,
        GreedyLoop(SortedBy(ls, GreedyKeys(ls)),
                   [assignments |-> <<>>, total_cost |-> 0, available_trucks |-> SubSeq(ts, 1, 1)]))

\* _greedy_assignment
GreedyAssignment(ts, ls) ==
    ListSolution(ts, ls,
        GreedyLoop(SortedBy(ls, GreedyKeys(ls)),
                   [assignments |-> <<>>, total_cost |-> 0, available_trucks |-> ts]))

-----------------------------------------------------------------------------
(* src/src/algorithms/route_optimizer.py: find_best_truck_for_load *)

\* priority_factor of _calculate_truck_load_score, times 10
PriorityFactor10(p) ==
    CASE p = "low" -> 10 [] p = "normal" -> 9 [] p = "high" -> 7
      [] p = "urgent" -> 5 [] p = "critical" -> 3 [] OTHER -> 10

\* _calculate_truck_load_score without traffic conditions, in 1/12000 dollar:
\*   (d * 0.3 * 1.50 + d / 60 * 35) * priority_factor * fuel_factor
\*   with fuel_factor 1.0 above 30 percent fuel and 1.5 otherwise
CalculateTruckLoadScore(truck, load) ==
    IF truck.current_location = NoLoc THEN Inf
    ELSE TotalDistance(truck, load) * 620 * PriorityFactor10(load.priority)
            * (IF truck.fuel_level_percent > 30 THEN 2 ELSE 3)

\* the loop of find_best_truck_for_load: only the capacity is checked
RECURSIVE FindBestLoop(_, _, _, _)
FindBestLoop(available, load, best_truck, best_score) ==
    IF available = <<>> THEN <<best_truck, best_score>>
    ELSE LET truck == Head(available)
         IN  IF truck.capacity_kg < load.weight_kg
             THEN FindBestLoop(Tail(available), load, best_truck, best_score)
             ELSE IF CalculateTruckLoadScore(truck, load) < best_score
             THEN FindBestLoop(Tail(available), load, truck, CalculateTruckLoadScore(truck, load))
             ELSE FindBestLoop(Tail(available), load, best_truck, best_score)

\* find_best_truck_for_load
FindBestTruckForLoad(load, available_trucks) ==
    IF available_trucks = <<>> THEN <<NoneTruck, Inf>>
    ELSE FindBestLoop(available_trucks, load, NoneTruck, Inf)

-----------------------------------------------------------------------------
(* src/src/algorithms/load_assignment.py, continued *)

\* one of the two loops of _priority_first_assignment
RECURSIVE PriorityLoop(_, _)
PriorityLoop(ls, acc) ==
    IF ls = <<>> THEN acc
    ELSE LET load == Head(ls)
             best == FindBestTruckForLoad(load, acc.available_trucks)
         IN  PriorityLoop(Tail(ls),
                IF best[1] # NoneTruck
                THEN [assignments |-> Append(acc.assignments, CreateAssignment(best[1], load, best[2])),
                      total_cost |-> acc.total_cost + best[2],
                      available_trucks |-> RemoveFirst(acc.available_trucks, best[1])]
                ELSE acc)

IsCritical(l) == l.priority \in {"critical", "urgent"}

\* a priority-first assignment that serves the other loads first
PriorityFirstAssignment_NormalFirst(ts, ls) ==
    LET critical_loads == SelectSeq(ls, IsCritical)
        normal_loads == SelectSeq(ls, LAMBDA l : ~IsCritical(l))
        r1 == PriorityLoop(normal_loads,
                           [assignments |-> <<>>, total_cost |-> 0, available_trucks |-> ts])
        r2 == PriorityLoop(SortedBy(critical_loads, DeadlineKeys(critical_loads)), r1)
    IN  ListSolution(ts, ls, r2)

\* _priority_first_assignment
PriorityFirstAssignment(ts, ls) ==
    LET critical_loads == SelectSeq(ls, IsCritical)
        normal_loads == SelectSeq(ls, LAMBDA l : ~IsCritical(l))
        r1 == PriorityLoop(SortedBy(critical_loads, DeadlineKeys(critical_loads)),
                           [assignments |-> <<>>, total_cost |-> 0, available_trucks |-> ts])
        r2 == PriorityLoop(normal_loads, r1)
    IN  ListSolution(ts, ls, r2)

Strategies == {"optimal", "greedy", "priority_first"}

\* the filters of assign_loads_to_trucks
AvailableTrucks(ts) ==
    SelectSeq(ts, LAMBDA t : t.status \in EligibleStatus /\ t.current_location # NoLoc)

UnassignedLoads(ls) == SelectSeq(ls, LAMBDA l : l.assigned_truck_id = NoTruck)

\* an entry point without the short-circuit for empty eligible sets
AssignLoadsToTrucks_NoShortCircuit(ts, ls, strat) ==
    LET available_trucks == AvailableTrucks(ts)
        unassigned_loads == UnassignedLoads(ls)
    IN  IF strat = "optimal"
        THEN <<OptimalAssignment(available_trucks, unassigned_loads), "none">>
        ELSE IF strat = "greedy"
        THEN <<GreedyAssignment(available_trucks, unassigned_loads), "none">>
        ELSE IF strat = "priority_first"
        THEN <<PriorityFirstAssignment(available_trucks, unassigned_loads), "none">>
        ELSE <<NoSolution, "ValueError">>

\* assign_loads_to_trucks: <<solution returned, exception raised>>
AssignLoadsToTrucks(ts, ls, strat) ==
    LET available_trucks == AvailableTrucks(ts)
        unassigned_loads == UnassignedLoads(ls)
    IN  IF available_trucks = <<>> \/ unassigned_loads = <<>>
        THEN <<[assignments |-> <<>>,
                total_cost |-> 0,
                unassigned_loads |-> IdsNotIn(unassigned_loads, {}),
                utilization_rate |-> <<0, 1>>,
                on_time_probability |-> <<10, 1>>], "none">>
        ELSE IF strat = "optimal"
        THEN <<OptimalAssignment(available_trucks, unassigned_loads), "none">>
        ELSE IF strat = "greedy"
        THEN <<GreedyAssignment(available_trucks, unassigned_loads), "none">>
        ELSE IF strat = "priority_first"
        THEN <<PriorityFirstAssignment(available_trucks, unassigned_loads), "none">>
        ELSE <<NoSolution, "ValueError">>

-----------------------------------------------------------------------------
(* Specification of the load assignment engine: the inputs are drawn from  *)
(* TruckLists and LoadLists, and one call of assign_loads_to_trucks is     *)
(* made with each strategy value.                                          *)

InitAssign ==
    /\ trucks \in TruckLists
    /\ loads \in LoadLists
    /\ strategy = ""
    /\ solution = NoSolution
    /\ assign_exc = "none"
    /\ rerun = FALSE
    /\ reassignments = NotOptimized
    /\ DecideIdle
    /\ RouteIdle
    /\ LoopIdle
    /\ CreateIdle
    /\ TwoOptIdle
    /\ GenerateIdle
    /\ RequestIdle

\* the caller's truck list after a call in which the strategies take the
\* trucks they assign out of the caller's list itself
TrucksAfterCall_Aliased(ts, ls, strat) ==
    SelectSeq(ts, LAMBDA t : t.id \notin AssignedTruckIds(AssignLoadsToTrucks(ts, ls, strat)[1].assignments))

\* the caller's truck list after assign_loads_to_trucks(ts, ls, strat): the
\* call filters it into a new list, the strategies remove trucks from their
\* copy trucks[:] of that list, and no attribute of a Truck is assigned
TrucksAfterCall(ts, ls, strat) == ts

\* the caller's load list after the call: filtered into a new list, sorted
\* by sorted() into another, and no attribute of a Load is assigned
LoadsAfterCall(ts, ls, strat) == ls

Assign(strat) ==
    /\ strategy = ""
    /\ strategy' = strat
    /\ solution' = AssignLoadsToTrucks(trucks, loads, strat)[1]
    /\ assign_exc' = AssignLoadsToTrucks(trucks, loads, strat)[2]
    /\ trucks' = TrucksAfterCall(trucks, loads, strat)
    /\ loads' = LoadsAfterCall(trucks, loads, strat)
    /\ UNCHANGED <<rerun, reassignments>>
    /\ UNCHANGED <<decideVars, routeVars, loopVars, createVars, twoOptVars, generateVars, requestVars>>

\* the caller applies a solution: each assigned load gets its truck's id and
\* the truck becomes en_route
ApplyToLoads(ls, assignments) ==
    [j \in 1..Len(ls) |->
        IF \E k \in 1..Len(assignments) : assignments[k].load_id = ls[j].id
        THEN [ls[j] EXCEPT !.assigned_truck_id =
                assignments[CHOOSE k \in 1..Len(assignments) : assignments[k].load_id = ls[j].id].truck_id]
        ELSE ls[j]]

ApplyToTrucks(ts, assignments) ==
    [i \in 1..Len(ts) |->
        IF \E k \in 1..Len(assignments) : assignments[k].truck_id = ts[i].id
        THEN [current_load_id |->
                 assignments[CHOOSE k \in 1..Len(assignments) : assignments[k].truck_id = ts[i].id].load_id]
             @@ [ts[i] EXCEPT !.status = "en_route"]
        ELSE ts[i]]

\* truck.current_load_id, None unless it has been set
NoLoad == "None"
CurrentLoadId(t) == IF "current_load_id" \in DOMAIN t THEN t.current_load_id ELSE NoLoad

\* the inner loop of optimize_existing_assignments: the first idle truck
\* that satisfies the constraints and costs less than 80 percent
\* idle_cost < current_cost * 0.8, where either cost may be float('inf')
CheaperByFifth(idle_cost, current_cost) ==
    IF idle_cost = Inf THEN FALSE
    ELSE IF current_cost = Inf THEN TRUE
    ELSE 5 * idle_cost < 4 * current_cost

RECURSIVE FirstCheaperIdle(_, _, _)
FirstCheaperIdle(idle_trucks, current_load, current_cost) ==
    IF idle_trucks = <<>> THEN NoneTruck
    ELSE IF /\ CheckAssignmentConstraints(Head(idle_trucks), current_load)
            /\ CheaperByFifth(CalculateAssignmentCost(Head(idle_trucks), current_load),
                              current_cost)
         THEN Head(idle_trucks)
         ELSE FirstCheaperIdle(Tail(idle_trucks), current_load, current_cost)

\* the outer loop of optimize_existing_assignments
RECURSIVE OptimizeLoop(_, _, _, _)
OptimizeLoop(loaded_trucks, idle_trucks, ls, acc) ==
    IF loaded_trucks = <<>> THEN acc
    ELSE LET loaded_truck == Head(loaded_trucks)
             current_load == FirstWithId(ls, CurrentLoadId(loaded_truck), NoneLoad)
             idle_truck == IF current_load = NoneLoad THEN NoneTruck
                           ELSE FirstCheaperIdle(idle_trucks, current_load,
                                    CalculateAssignmentCost(loaded_truck, current_load))
         IN  OptimizeLoop(Tail(loaded_trucks), idle_trucks, ls,
                IF idle_truck # NoneTruck
                THEN Append(acc, <<idle_truck.id, current_load.id>>)
                ELSE acc)

\* optimize_existing_assignments
OptimizeExistingAssignments(ts, ls) ==
    LET loaded_trucks == SelectSeq(ts, LAMBDA t : CurrentLoadId(t) # NoLoad)
        idle_trucks == SelectSeq(ts, LAMBDA t : t.status = "idle")
    IN  IF loaded_trucks = <<>> \/ idle_trucks = <<>> THEN <<>>
        ELSE OptimizeLoop(loaded_trucks, idle_trucks, ls, <<>>)

\* a solution that assigned every considered load is applied, and
\* assign_loads_to_trucks is called again with the same strategy
AssignAgain ==
    /\ strategy \in Strategies
    /\ ~rerun
    /\ solution.assignments # <<>>
    /\ solution.unassigned_loads = <<>>
    /\ rerun' = TRUE
    /\ loads' = ApplyToLoads(loads, solution.assignments)
    /\ trucks' = ApplyToTrucks(trucks, solution.assignments)
    /\ solution' = AssignLoadsToTrucks(ApplyToTrucks(trucks, solution.assignments),
                                       ApplyToLoads(loads, solution.assignments), strategy)[1]
    /\ assign_exc' = AssignLoadsToTrucks(ApplyToTrucks(trucks, solution.assignments),
                                         ApplyToLoads(loads, solution.assignments), strategy)[2]
    /\ UNCHANGED <<strategy, reassignments>>
    /\ UNCHANGED <<decideVars, routeVars, loopVars, createVars, twoOptVars, generateVars, requestVars>>

\* optimize_existing_assignments is called on the fleet and the loads the
\* solution was applied to
OptimizeExisting ==
    /\ rerun
    /\ reassignments = NotOptimized
    /\ reassignments' = OptimizeExistingAssignments(trucks, loads)
    /\ trucks' = TrucksAfterCall(trucks, loads, "optimize_existing")
    /\ loads' = LoadsAfterCall(trucks, loads, "optimize_existing")
    /\ UNCHANGED <<strategy, solution, assign_exc, rerun>>
    /\ UNCHANGED <<decideVars, routeVars, loopVars, createVars, twoOptVars, generateVars, requestVars>>

AssignOptimal == Assign("optimal")
AssignGreedy == Assign("greedy")
AssignPriorityFirst == Assign("priority_first")
AssignUnknown == Assign("hungarian")

NextAssign == AssignOptimal \/ AssignGreedy \/ AssignPriorityFirst \/ AssignUnknown \/ AssignAgain \/ OptimizeExisting

SpecAssign == InitAssign /\ [][NextAssign]_vars

-----------------------------------------------------------------------------
(* Properties of the load assignment engine *)

Called == strategy \in Strategies

TruckWithId(id) == CHOOSE t \in Range(trucks) : t.id = id
LoadWithId(id) == CHOOSE l \in Range(loads) : l.id = id

AssignmentIndexes == 1..Len(solution.assignments)

ConsideredLoadIds == {l.id : l \in Range(UnassignedLoads(loads))}

\* C1: every (truck, load) pair returned as an Assignment, under each of the
\* three strategies, satisfies _check_assignment_constraints(truck, load)
\* (capacity, fuel budget and deadline).
C1_FeasibilitySoundness ==
    Called =>
        \A k \in AssignmentIndexes :
            CheckAssignmentConstraints(TruckWithId(solution.assignments[k].truck_id),
                                       LoadWithId(solution.assignments[k].load_id))

\* C2: in every solution returned (truck ids and load ids of the inputs are
\* pairwise distinct), no truck id and no load id appears in more than one
\* Assignment.
C2_NoDoubleCommitment ==
    Called =>
        \A k1, k2 \in AssignmentIndexes :
            k1 # k2 => /\ solution.assignments[k1].truck_id # solution.assignments[k2].truck_id
                       /\ solution.assignments[k1].load_id # solution.assignments[k2].load_id

\* C2 witness: a call that committed two trucks to two loads
C2_Witness == Called /\ Len(solution.assignments) >= 2

\* C9: for each strategy the call returns a solution without raising, and the
\* load ids of the Assignments together with unassigned_loads partition the
\* considered loads (those without assigned_truck_id).
C9_UnassignedPartition ==
    Called =>
        /\ assign_exc = "none"
        /\ AssignedLoadIds(solution.assignments) \cup Range(solution.unassigned_loads)
                = ConsideredLoadIds
        /\ AssignedLoadIds(solution.assignments) \cap Range(solution.unassigned_loads) = {}
        /\ \A k1, k2 \in 1..Len(solution.unassigned_loads) :
                k1 # k2 => solution.unassigned_loads[k1] # solution.unassigned_loads[k2]

\* C9 witness: some considered load has no feasible truck among the eligible
\* ones and is reported unassigned, while another load is assigned
C9_Witness ==
    /\ Called
    /\ solution.assignments # <<>>
    /\ \E l \in Range(UnassignedLoads(loads)) :
          /\ l.id \in Range(solution.unassigned_loads)
          /\ \A t \in Range(AvailableTrucks(trucks)) : ~CheckAssignmentConstraints(t, l)

-----------------------------------------------------------------------------
(* src/src/planning/simulation_engine.py and src/src/decision/evaluator.py *)
(*                                                                         *)
(* Scenario fields are fixed-point numbers: estimated_cost in cents,       *)
(* estimated_time_minutes and estimated_fuel_liters in tenths,             *)
(* reliability_score in hundredths.  The component scores are kept in      *)
(* units of 10^-5, Decision.score and Decision.confidence in thousandths.  *)

ActionTypes == {"reroute", "reassign", "dispatch", "wait", "notify", "escalate"}

\* round(x, 3) for x = num / den in thousandths: nearest integer to num / den,
\* a tie going to the even neighbour
RoundDiv(num, den) ==
    LET q == num \div den
        r == num % den
    IN  IF 2 * r > den THEN q + 1
        ELSE IF 2 * r < den THEN q
        ELSE IF q % 2 = 0 THEN q ELSE q + 1

RECURSIVE MinSeq(_)
MinSeq(s) == IF Len(s) = 1 THEN s[1] ELSE Min2(s[1], MinSeq(Tail(s)))

RECURSIVE MaxSeq(_)
MaxSeq(s) == IF Len(s) = 1 THEN s[1] ELSE Max2(s[1], MaxSeq(Tail(s)))

\* 1 - (value - min) / range of compare_scenarios, rounded to 3 places,
\* in units of 10^-5
NormalizedScore(value, values) ==
    LET lo == MinSeq(values)
        hi == MaxSeq(values)
        range == IF hi # lo THEN hi - lo ELSE 1
    IN  100 * RoundDiv(1000 * (range - (value - lo)), range)

\* SimulationEngine.compare_scenarios: scenario id -> scores
CompareScenarios(scs) ==
    LET costs == [k \in 1..Len(scs) |-> scs[k].estimated_cost]
        times == [k \in 1..Len(scs) |-> scs[k].estimated_time_minutes]
        fuels == [k \in 1..Len(scs) |-> scs[k].estimated_fuel_liters]
    IN  [id \in {scs[k].id : k \in 1..Len(scs)} |->
            LET s == scs[CHOOSE k \in 1..Len(scs) :
                            scs[k].id = id /\ \A k2 \in (k+1)..Len(scs) : scs[k2].id # id]
            IN  [cost_score |-> NormalizedScore(s.estimated_cost, costs),
                 time_score |-> NormalizedScore(s.estimated_time_minutes, times),
                 fuel_score |-> NormalizedScore(s.estimated_fuel_liters, fuels),
                 reliability |-> 1000 * s.reliability_score]]

\* DecisionEvaluator._compute_scores: 1 / (1 + cost / 100), 1 / (1 + time / 60),
\* 1 / (1 + fuel / 10), in units of 10^-5
ComputeScores(s) ==
    [cost_score |-> 1000000000 \div (10000 + s.estimated_cost),
     time_score |-> 60000000 \div (600 + s.estimated_time_minutes),
     fuel_score |-> 10000000 \div (100 + s.estimated_fuel_liters),
     reliability |-> 1000 * s.reliability_score]

\* DecisionEvaluator._determine_action_type
DetermineActionType(s) ==
    IF s.actions = <<>> THEN "wait"
    ELSE IF s.actions[1] \in ActionTypes THEN s.actions[1]
    ELSE "wait"

\* The comparison_matrix argument when none is passed
NoMatrix == [id \in {} |-> 0]

\* weighted_score of evaluate_scenarios in units of 10^-7, with the default
\* weights cost 0.25, time 0.35, reliability 0.30, fuel 0.10
WeightedScore(s, comparison_matrix) ==
    LET scores == IF comparison_matrix # NoMatrix /\ s.id \in DOMAIN comparison_matrix
                  THEN comparison_matrix[s.id]
                  ELSE ComputeScores(s)
    IN  25 * scores.cost_score + 35 * scores.time_score
            + 30 * scores.reliability + 10 * scores.fuel_score

\* The Decision built for one scenario
MakeDecision(s, comparison_matrix) ==
    [id |-> "DEC-" \o s.id,
     scenario_id |-> s.id,
     action_type |-> DetermineActionType(s),
     score |-> RoundDiv(WeightedScore(s, comparison_matrix), 10000),
     confidence |-> RoundDiv(WeightedScore(s, comparison_matrix) * s.reliability_score, 1000000)]

\* selected_decision is None
NoDecision == [id |-> "None", scenario_id |-> "None", action_type |-> "None",
               score |-> 0, confidence |-> 0]

\* DecisionEvaluator.__init__: confidence_threshold or the setting (0.7);
\* thresholds are in thousandths, 0 stands for None as well
DefaultThreshold == 700
EffectiveThreshold(arg) == IF arg = 0 THEN DefaultThreshold ELSE arg

\* the confidence below which a reassign or escalate decision needs approval
HighImpactConfidence == 850

\* an approval check that leaves out the stricter bar of high-impact actions
RequiresHuman_ThresholdOnly(best, threshold) == best.confidence < threshold

\* "Check if human approval needed" of evaluate_scenarios
RequiresHuman(best, threshold) ==
    \/ best.confidence < threshold
    \/ best.action_type \in {"reassign", "escalate"} /\ best.confidence < HighImpactConfidence

\* a result for "no scenarios" that does not ask for approval
EmptyResult_Auto ==
    [selected_decision |-> NoDecision, alternatives |-> <<>>,
     requires_human_approval |-> FALSE]

\* the result of evaluate_scenarios for "not scenarios"
EmptyResult ==
    [selected_decision |-> NoDecision, alternatives |-> <<>>,
     requires_human_approval |-> TRUE]

\* DecisionEvaluator.evaluate_scenarios
EvaluateScenarios(scs, comparison_matrix, confidence_threshold) ==
    IF scs = <<>> THEN EmptyResult
    ELSE LET decisions == [k \in 1..Len(scs) |-> MakeDecision(scs[k], comparison_matrix)]
             sorted == SortedBy(decisions, [k \in 1..Len(scs) |-> <<0 - decisions[k].score, 0>>])
             best == sorted[1]
         IN  [selected_decision |-> best,
              alternatives |-> Tail(sorted),
              requires_human_approval |-> RequiresHuman(best, EffectiveThreshold(confidence_threshold))]

-----------------------------------------------------------------------------
(* Specification of the decision evaluator: evaluate_scenarios is called   *)
(* on a list of scenarios, with or without the comparison matrix of        *)
(* compare_scenarios, by an evaluator built with some confidence           *)
(* threshold.                                                              *)

\* The scenarios the inputs are drawn from: the fixed scenarios of
\* src/src/planning/scenario_generator.py, a reassignment scenario, and
\* scenarios without actions or with an action of unknown type.  ids are
\* given by the position in the input list.
ScenarioKinds ==
    { [actions |-> <<"wait">>, estimated_cost |-> 6250, estimated_time_minutes |-> 750,
       estimated_fuel_liters |-> 20, reliability_score |-> 70],
      [actions |-> <<"reroute">>, estimated_cost |-> 2729, estimated_time_minutes |-> 275,
       estimated_fuel_liters |-> 75, reliability_score |-> 85],
      [actions |-> <<"reassign", "dispatch">>, estimated_cost |-> 4125, estimated_time_minutes |-> 450,
       estimated_fuel_liters |-> 90, reliability_score |-> 90],
      [actions |-> <<"reassign", "dispatch">>, estimated_cost |-> 0, estimated_time_minutes |-> 0,
       estimated_fuel_liters |-> 0, reliability_score |-> 100],
      [actions |-> <<"notify">>, estimated_cost |-> 1000, estimated_time_minutes |-> 600,
       estimated_fuel_liters |-> 30, reliability_score |-> 60],
      [actions |-> <<"dispatch">>, estimated_cost |-> 15000, estimated_time_minutes |-> 900,
       estimated_fuel_liters |-> 80, reliability_score |-> 95],
      [actions |-> <<"escalate">>, estimated_cost |-> 0, estimated_time_minutes |-> 150,
       estimated_fuel_liters |-> 0, reliability_score |-> 80],
      [actions |-> <<"escalate">>, estimated_cost |-> 0, estimated_time_minutes |-> 300,
       estimated_fuel_liters |-> 0, reliability_score |-> 90],
      [actions |-> <<"escalate">>, estimated_cost |-> 0, estimated_time_minutes |-> 0,
       estimated_fuel_liters |-> 0, reliability_score |-> 100],
      [actions |-> <<>>, estimated_cost |-> 2000, estimated_time_minutes |-> 150,
       estimated_fuel_liters |-> 0, reliability_score |-> 50],
      [actions |-> <<"monitor">>, estimated_cost |-> 0, estimated_time_minutes |-> 0,
       estimated_fuel_liters |-> 0, reliability_score |-> 100] }

ScenarioId(k) == "S" \o ToString(k)
MkScenario(k, kind) == [id |-> ScenarioId(k)] @@ kind

ScenarioLists ==
    {[k \in 1..Len(ks) |-> MkScenario(k, ks[k])] : ks \in SeqsUpTo(ScenarioKinds, MaxScenarios)}

\* the confidence_threshold arguments of DecisionEvaluator (0: not given)
ThresholdArgs == {0, 500, 700, 900}

NoResult == [selected_decision |-> NoDecision, alternatives |-> <<>>,
             requires_human_approval |-> FALSE]

InitDecide ==
    /\ scenarios \in ScenarioLists
    /\ threshold_arg \in ThresholdArgs
    /\ decision_result = NoResult
    /\ evaluated = "no"
    /\ AssignIdle
    /\ RouteIdle
    /\ LoopIdle
    /\ CreateIdle
    /\ TwoOptIdle
    /\ GenerateIdle
    /\ RequestIdle

\* evaluate_scenarios(scenarios): no comparison matrix
EvaluateDirect ==
    /\ evaluated = "no"
    /\ evaluated' = "direct"
    /\ decision_result' = EvaluateScenarios(scenarios, NoMatrix, threshold_arg)
    /\ UNCHANGED <<scenarios, threshold_arg>>
    /\ UNCHANGED <<assignVars, routeVars, loopVars, createVars, twoOptVars, generateVars, requestVars>>

\* evaluate_scenarios(scenarios, comparison_matrix) as decision_node calls
\* it, with the matrix compare_scenarios computed for these scenarios
EvaluateWithMatrix ==
    /\ evaluated = "no"
    /\ evaluated' = "matrix"
    /\ decision_result' = EvaluateScenarios(scenarios, CompareScenarios(scenarios), threshold_arg)
    /\ UNCHANGED <<scenarios, threshold_arg>>
    /\ UNCHANGED <<assignVars, routeVars, loopVars, createVars, twoOptVars, generateVars, requestVars>>

NextDecide == EvaluateDirect \/ EvaluateWithMatrix

SpecDecide == InitDecide /\ [][NextDecide]_vars

-----------------------------------------------------------------------------
(* Properties of the decision evaluator *)

Evaluated == evaluated # "no"

\* C6: for a non-empty scenario list, a selected Decision with action_type
\* reassign or escalate and confidence below 0.85 has
\* requires_human_approval = true, whatever the configured threshold.
C6_EscalationRule ==
    (Evaluated /\ scenarios # <<>>) =>
        ((/\ decision_result.selected_decision.action_type \in {"reassign", "escalate"}
          /\ decision_result.selected_decision.confidence < 850)
            => decision_result.requires_human_approval = TRUE)

\* C6 witness: a reassign or escalate decision whose confidence is at least
\* the configured threshold and below 0.85
C6_Witness ==
    /\ Evaluated
    /\ scenarios # <<>>
    /\ decision_result.selected_decision.action_type \in {"reassign", "escalate"}
    /\ decision_result.selected_decision.confidence < 850
    /\ decision_result.selected_decision.confidence >= EffectiveThreshold(threshold_arg)
    /\ decision_result.requires_human_approval

\* C7: for an empty scenario list the result has selected_decision = None
\* and requires_human_approval = true.
C7_EmptyNeedsHuman ==
    (Evaluated /\ scenarios = <<>>) =>
        /\ decision_result.selected_decision = NoDecision
        /\ decision_result.alternatives = <<>>
        /\ decision_result.requires_human_approval = TRUE

\* C7 witness: evaluate_scenarios has returned for an empty list
C7_Witness == Evaluated /\ scenarios = <<>> /\ decision_result.requires_human_approval

-----------------------------------------------------------------------------
(* src/src/algorithms/route_optimizer.py: optimize_route, called without   *)
(* traffic conditions (traffic factor 1.0, 60 km/h: one minute per km)     *)

\* _empty_route (confidence in units of 10^-4)
EmptyRoute ==
    [segments |-> <<>>, total_distance_km |-> 0, total_time_minutes |-> 0,
     total_cost |-> 0, fuel_consumption_liters100 |-> 0, confidence_score |-> 10000]

\* no route was returned
NoRoute ==
    [segments |-> <<>>, total_distance_km |-> -1, total_time_minutes |-> -1,
     total_cost |-> -1, fuel_consumption_liters100 |-> -1, confidence_score |-> -1]

\* locations: pickup and delivery of each load, in input order
\* (index 2j-2 is the pickup of the j-th load, 2j-1 its delivery, from 0)
RouteLocations(ls) ==
    [k \in 1..(2 * Len(ls)) |->
        IF k % 2 = 1 THEN ls[(k + 1) \div 2].pickup_location
        ELSE ls[k \div 2].delivery_location]

\* sequence.index(x) if x in sequence else -1 (positions from 0)
IndexOf(sequence, x) ==
    IF x \in Range(sequence)
    THEN (CHOOSE k \in 1..Len(sequence) :
            sequence[k] = x /\ \A k2 \in 1..(k-1) : sequence[k2] # x) - 1
    ELSE -1

AppendNew(s, x) == IF x \in Range(s) THEN s ELSE Append(s, x)

\* the loop over the loads of _enforce_pickup_delivery_order: both branches
\* of the position test append the pickup and then the delivery
RECURSIVE EnforceLoads(_, _, _, _)
EnforceLoads(sequence, n_loads, load_idx, corrected) ==
    IF load_idx >= n_loads THEN corrected
    ELSE LET pickup_idx == load_idx * 2
             delivery_idx == load_idx * 2 + 1
             pickup_pos == IndexOf(sequence, pickup_idx)
             delivery_pos == IndexOf(sequence, delivery_idx)
         IN  EnforceLoads(sequence, n_loads, load_idx + 1,
                IF pickup_pos >= 0 /\ delivery_pos >= 0
                THEN AppendNew(AppendNew(corrected, pickup_idx), delivery_idx)
                ELSE corrected)

\* "Add any missing locations"
RECURSIVE AddMissing(_, _)
AddMissing(sequence, corrected) ==
    IF sequence = <<>> THEN corrected
    ELSE AddMissing(Tail(sequence), AppendNew(corrected, Head(sequence)))

\* _enforce_pickup_delivery_order
EnforcePickupDeliveryOrder(sequence, n_loads) ==
    AddMissing(sequence, EnforceLoads(sequence, n_loads, 0, <<>>))

\* "Build route segments": one segment per entry of the sequence
RECURSIVE BuildSegments(_, _, _)
BuildSegments(sequence, locations, current_location) ==
    IF sequence = <<>> THEN <<>>
    ELSE LET next_location == locations[Head(sequence) + 1]
             distance == distance_to(current_location, next_location)
         IN  <<[start |-> current_location, end |-> next_location,
                distance_km |-> distance, estimated_time_minutes |-> distance,
                traffic_factor |-> 1]>>
             \o BuildSegments(Tail(sequence), locations, next_location)

\* _calculate_confidence_score without traffic conditions, in units of 10^-4
CalculateConfidenceScore(total_distance) ==
    LET base == IF total_distance > 200 THEN 9000 - (total_distance - 200) ELSE 9000
    IN  Max2(3000, Min2(10000, base))

\* the OptimizedRoute built from the final sequence; fuel in hundredths of a
\* litre (0.3 L/km plus 0.00002 L/km per kg), cost in 1/12000 dollar
BuildRoute(sequence, ls, start_location) ==
    LET segments == BuildSegments(sequence, RouteLocations(ls), start_location)
        total_distance == SumSeq([k \in 1..Len(segments) |-> segments[k].distance_km])
        total_time == SumSeq([k \in 1..Len(segments) |-> segments[k].estimated_time_minutes])
        total_weight == SumSeq([k \in 1..Len(ls) |-> ls[k].weight_kg])
        fuel100 == total_distance * (30 + 2 * total_weight)
    IN  [segments |-> segments,
         total_distance_km |-> total_distance,
         total_time_minutes |-> total_time,
         total_cost |-> 180 * fuel100 + 7000 * total_time,
         fuel_consumption_liters100 |-> fuel100,
         confidence_score |-> CalculateConfidenceScore(total_distance)]

\* optimize_route: <<route returned, exception raised>>.  distance_matrix is
\* a list of lists, so with more than two locations the expression
\* distance_matrix[1:, 1:] (a list indexed by a tuple of slices) raises
\* TypeError before _nearest_neighbor_tsp is entered.
OptimizeRoute(truck, ls) ==
    IF ls = <<>> THEN <<EmptyRoute, "none">>
    ELSE LET start_location == IF truck.current_location # NoLoc
                               THEN truck.current_location
                               ELSE ls[1].pickup_location
             locations == RouteLocations(ls)
         IN  IF Len(locations) <= 2
             THEN <<BuildRoute(
                        EnforcePickupDeliveryOrder([k \in 1..Len(locations) |-> k - 1], Len(ls)),
                        ls, start_location), "none">>
             ELSE <<NoRoute, "TypeError">>

-----------------------------------------------------------------------------
(* Specification of the route optimizer: one call of optimize_route for a  *)
(* truck and a list of loads.                                              *)

InitRoute ==
    /\ route_truck \in {MkTruck(1, k) : k \in TruckKinds}
    /\ route_loads \in LoadLists
    /\ route = NoRoute
    /\ route_exc = "none"
    /\ route_called = FALSE
    /\ AssignIdle
    /\ DecideIdle
    /\ LoopIdle
    /\ CreateIdle
    /\ TwoOptIdle
    /\ GenerateIdle
    /\ RequestIdle

CallOptimizeRoute ==
    /\ ~route_called
    /\ route_called' = TRUE
    /\ route' = OptimizeRoute(route_truck, route_loads)[1]
    /\ route_exc' = OptimizeRoute(route_truck, route_loads)[2]
    /\ UNCHANGED <<route_truck, route_loads>>
    /\ UNCHANGED <<assignVars, decideVars, loopVars, createVars, twoOptVars, generateVars, requestVars>>

NextRoute == CallOptimizeRoute

SpecRoute == InitRoute /\ [][NextRoute]_vars

-----------------------------------------------------------------------------
(* Properties of the route optimizer *)

\* C10: for every truck and every list of N >= 1 loads, optimize_route
\* returns an OptimizedRoute in which, for each load, the segment that ends
\* at the load's pickup location comes before the segment that ends at the
\* load's delivery location.
C10_RouteOrdering ==
    (route_called /\ route_loads # <<>>) =>
        /\ route_exc = "none"
        /\ \A j \in 1..Len(route_loads) :
              \E a, b \in 1..Len(route.segments) :
                  /\ a < b
                  /\ route.segments[a].end = route_loads[j].pickup_location
                  /\ route.segments[b].end = route_loads[j].delivery_location

-----------------------------------------------------------------------------
(* src/src/planning/scenario_generator.py and planning_node.py.  Scenario  *)
(* figures as in ScenarioKinds: cost in cents, time and fuel in tenths,    *)
(* reliability in hundredths.                                              *)

NewScenario(id, actions, cost, time, fuel, reliability) ==
    [id |-> id, actions |-> actions, estimated_cost |-> cost,
     estimated_time_minutes |-> time, estimated_fuel_liters |-> fuel,
     reliability_score |-> reliability]

\* f"SCEN-{issue.id}-{suffix}"
ScenarioIdFor(issue, suffix) == "SCEN-" \o issue.id \o "-" \o suffix

\* _get_affected_truck
GetAffectedTruck(issue, ts) ==
    IF issue.affected_truck_ids # <<>>
    THEN FirstWithId(ts, issue.affected_truck_ids[1], NoneTruck)
    ELSE NoneTruck

\* _get_affected_load
GetAffectedLoad(issue, ls) ==
    IF issue.affected_load_ids # <<>>
    THEN FirstWithId(ls, issue.affected_load_ids[1], NoneLoad)
    ELSE NoneLoad

\* the trucks a stuck truck's load can be reassigned to
ReassignCandidates(truck, ts) ==
    SelectSeq(ts, LAMBDA t : t.id # truck.id /\ t.status \in {"idle", "en_route"})

\* simulate_route(...)['total_cost'] in cents for distance_km and a load of
\* weight (in 1000 kg; 0 without load): fuel at 0.3 L/km plus 0.00002 L/km
\* per kg and 1.50 $/L, time at 35 $/h and 60 km/h
SimulateRouteCost(distance_km, weight) == RoundDiv(distance_km * (310 + 9 * weight), 3)

\* simulate_reassignment raises AttributeError when the original truck or
\* the new truck has no current_location (distance_to of or on None)
ReassignmentRaises(original_truck, new_truck) ==
    original_truck.current_location = NoLoc \/ new_truck.current_location = NoLoc

\* the REASSIGN scenario built from simulate_reassignment
ReassignScenario(issue, truck, new_truck, load) ==
    LET to_pickup == distance_to(new_truck.current_location, truck.current_location)
        to_delivery == distance_to(truck.current_location, load.delivery_location)
    IN  NewScenario(ScenarioIdFor(issue, "REASSIGN"), <<"reassign", "dispatch">>,
            SimulateRouteCost(to_pickup, 0) + SimulateRouteCost(to_delivery, load.weight_kg) + 625,
            10 * to_pickup + 150 + 10 * to_delivery,
            3 * (to_pickup + to_delivery),
            90)

\* _generate_stuck_truck_scenarios
StuckTruckScenarios(issue, truck, load, ts) ==
    LET wait == <<NewScenario(ScenarioIdFor(issue, "WAIT"), <<"wait">>, 6250, 750, 20, 70)>>
        reroute == IF truck # NoneTruck /\ truck.current_location # NoLoc
                   THEN <<NewScenario(ScenarioIdFor(issue, "REROUTE-1"), <<"reroute">>, 2729, 275, 75, 85),
                          NewScenario(ScenarioIdFor(issue, "REROUTE-2"), <<"reroute">>, 3450, 360, 90, 85)>>
                   ELSE <<>>
        available_trucks == ReassignCandidates(truck, ts)
        reassign == IF available_trucks # <<>> /\ load # NoneLoad /\ truck # NoneTruck
                    THEN <<ReassignScenario(issue, truck, available_trucks[1], load)>>
                    ELSE <<>>
    IN  wait \o reroute \o reassign

\* _generate_delay_scenarios (also used for traffic issues)
DelayScenarios(issue) ==
    <<NewScenario(ScenarioIdFor(issue, "CONTINUE"), <<"notify">>, 1000, 600, 30, 60),
      NewScenario(ScenarioIdFor(issue, "WAIT"), <<"wait">>, 4500, 750, 25, 75)>>

\* _generate_capacity_scenarios
CapacityScenarios(issue, ts, ls) ==
    LET unassigned_loads == SelectSeq(ls, LAMBDA l :
                                l.id \in Range(issue.affected_load_ids) \/ l.assigned_truck_id = NoTruck)
        available_trucks == SelectSeq(ts, LAMBDA t : t.status = "idle")
    IN  (IF available_trucks # <<>> /\ unassigned_loads # <<>>
         THEN <<NewScenario(ScenarioIdFor(issue, "DISPATCH"), <<"dispatch">>, 15000, 900, 80, 95)>>
         ELSE <<>>)
        \o (IF available_trucks = <<>>
            THEN <<NewScenario(ScenarioIdFor(issue, "ESCALATE"), <<"escalate">>, 0, 150, 0, 80)>>
            ELSE <<>>)

\* _generate_generic_scenarios
GenericScenarios(issue) ==
    <<NewScenario(ScenarioIdFor(issue, "OBSERVE"), <<"wait">>, 2000, 150, 0, 50),
      NewScenario(ScenarioIdFor(issue, "ESCALATE"), <<"escalate">>, 0, 300, 0, 90)>>

\* score_scenario of _rank_scenarios, in units of 10^-6:
\* 0.3 / (1 + time / 60) + 0.2 / (1 + cost / 100) + 0.5 * reliability
RankScore(s) ==
    (180000000 \div (600 + s.estimated_time_minutes))
        + (2000000000 \div (10000 + s.estimated_cost))
        + 5000 * s.reliability_score

\* _rank_scenarios: sorted(..., reverse=True), a stable sort
RankScenarios(scs) == SortedBy(scs, [k \in 1..Len(scs) |-> <<0 - RankScore(scs[k]), 0>>])

\* the default of the parameter max_scenarios of generate_scenarios
DefaultMaxScenarios == 5

\* generate_scenarios raises for this issue
GenerateRaises(issue, ts, ls) ==
    LET truck == GetAffectedTruck(issue, ts)
        load == GetAffectedLoad(issue, ls)
        available_trucks == ReassignCandidates(truck, ts)
    IN  /\ issue.type = "stuck"
        /\ available_trucks # <<>> /\ load # NoneLoad /\ truck # NoneTruck
        /\ ReassignmentRaises(truck, available_trucks[1])

\* a cut that keeps every scenario
LimitScenarios_KeepAll(scs, limit) == scs

\* scenarios[:limit] for limit >= 0
LimitScenarios(scs, limit) == SubSeq(scs, 1, Min2(Len(scs), limit))

\* generate_scenarios up to "Limit number of scenarios": the scenarios the
\* generator of the issue's type produces, in the order it appends them
ScenarioCandidates(issue, ts, ls) ==
    LET truck == GetAffectedTruck(issue, ts)
        load == GetAffectedLoad(issue, ls)
    IN  CASE issue.type = "stuck" -> StuckTruckScenarios(issue, truck, load, ts)
          [] issue.type \in {"delay", "traffic"} -> DelayScenarios(issue)
          [] issue.type = "capacity_mismatch" -> CapacityScenarios(issue, ts, ls)
          [] OTHER -> GenericScenarios(issue)

\* generate_scenarios(..., max_scenarios=limit) when it returns: the
\* scenarios of the issue's type, cut to the limit and then ranked
GenerateScenariosUpTo(issue, ts, ls, limit) ==
    RankScenarios(LimitScenarios(ScenarioCandidates(issue, ts, ls), limit))

\* generate_scenarios with the default max_scenarios, as planning_node calls it
GenerateScenarios(issue, ts, ls) == GenerateScenariosUpTo(issue, ts, ls, DefaultMaxScenarios)

\* the loop of planning_node over the issues: scenarios are collected and
\* the comparison matrices merged by dict.update
RECURSIVE PlanIssues(_, _, _, _)
PlanIssues(issues, ts, ls, acc) ==
    IF issues = <<>> THEN acc
    ELSE LET scs == GenerateScenarios(Head(issues), ts, ls)
         IN  PlanIssues(Tail(issues), ts, ls,
                IF scs # <<>>
                THEN [scenarios |-> acc.scenarios \o scs,
                      comparison_matrix |-> CompareScenarios(scs) @@ acc.comparison_matrix]
                ELSE acc)

-----------------------------------------------------------------------------
(* src/src/orchestration/graph.py: the control loop                        *)
(* OBSERVE -> REASON -> PLAN -> DECIDE -> ACT -> FEEDBACK.  The collectors, *)
(* the LLM client and the evaluator are passed to the node factories, so   *)
(* what they return, and whether they raise, is chosen freely.             *)

MaxIssues == 2          \* issues reported by the reasoning of one cycle
MaxCycles == 3          \* cycles of one run that are explored
MaxMoves == 2           \* iterations of the position update loop during one run

NoError == "None"       \* error_message is None

\* bool(error_message)
Truthy(msg) == msg \notin {NoError, ""}

PhaseOrder == <<"observe", "reason", "plan", "decide", "act", "feedback">>

\* the fleets run_control_loop is started with (initial_trucks)
LoopFleets ==
    { <<>>,
      <<[id |-> "T1", status |-> "en_route", current_location |-> 0,
         capacity_kg |-> 10, fuel_level_percent |-> 100]>>,
      <<[id |-> "T1", status |-> "stuck", current_location |-> NoLoc,
         capacity_kg |-> 10, fuel_level_percent |-> 100],
        [id |-> "T2", status |-> "idle", current_location |-> 60,
         capacity_kg |-> 10, fuel_level_percent |-> 100]>> }

\* the load manifests the load collector returns
LoopLoadLists ==
    { <<>>,
      <<[id |-> "L1", weight_kg |-> 4, priority |-> "normal", pickup_location |-> 0,
         delivery_location |-> 30, delivery_deadline |-> NoDeadline, assigned_truck_id |-> "T1"],
        [id |-> "L2", weight_kg |-> 8, priority |-> "urgent", pickup_location |-> 30,
         delivery_location |-> 60, delivery_deadline |-> 120, assigned_truck_id |-> NoTruck]>> }

\* what the GPS collector returns: no reading, or for every truck a series
\* of readings below 5 km/h at its position (position 0 if it had none)
GpsOutcomes == {"none", "slow"}

\* preprocess_gps_readings for one truck
UpdateTruck(t, gps) ==
    IF gps = "none" THEN t
    ELSE [t EXCEPT !.current_location = IF @ = NoLoc THEN 0 ELSE @,
                   !.status = IF @ = "en_route" THEN "stuck" ELSE @]

\* what the traffic collector returns: nothing, or three congested segments
TrafficOutcomes ==
    { <<>>,
      <<[segment_id |-> "SEG1", level |-> "heavy"],
        [segment_id |-> "SEG2", level |-> "standstill"],
        [segment_id |-> "SEG3", level |-> "heavy"]>> }

\* the ways collect_all fails: one of the gathered collectors raises while
\* the other two return, or all of them raise
SingleCollectorFailures == {"gps_failed", "traffic_failed", "load_failed"}
CollectorFailures == SingleCollectorFailures \cup {"all_failed"}

\* the failures of the LLM call after which complete_json returns a response
\* without success or without parsed content
LLMFallbackModes == {"llm_not_configured", "llm_unexpected_error", "llm_bad_json"}

\* the failures of the LLM call that leave GroqClient.complete as an
\* exception: GroqRateLimitError, and APIError after the third attempt
LLMRaisingModes == {"llm_rate_limit", "llm_api_error"}

LLMFailures == LLMFallbackModes \cup LLMRaisingModes

\* the issues the reasoning reports; ids are given by the position in the list
IssueKinds ==
    { [type |-> "stuck", affected_truck_ids |-> <<"T1">>, affected_load_ids |-> <<"L1">>],
      [type |-> "stuck", affected_truck_ids |-> <<>>, affected_load_ids |-> <<>>],
      [type |-> "delay", affected_truck_ids |-> <<"T1">>, affected_load_ids |-> <<"L1">>],
      [type |-> "traffic", affected_truck_ids |-> <<>>, affected_load_ids |-> <<>>],
      [type |-> "capacity_mismatch", affected_truck_ids |-> <<>>, affected_load_ids |-> <<"L2">>],
      [type |-> "breakdown", affected_truck_ids |-> <<"T1">>, affected_load_ids |-> <<>>] }

IssueId(k) == "I" \o ToString(k)
MkIssue(k, kind) == [id |-> IssueId(k)] @@ kind

IssueLists == {[k \in 1..Len(ks) |-> MkIssue(k, ks[k])] : ks \in SeqsUpTo(IssueKinds, MaxIssues)}

\* _create_fallback_situation_analysis: the issues of the rule-based analysis
FallbackSituationAnalysis(ts, traffic, ls) ==
    LET stuck == SelectSeq(ts, LAMBDA t : t.status = "stuck")
        heavy_segments == SelectSeq(traffic, LAMBDA tc : tc.level \in {"heavy", "standstill"})
        unassigned_urgent == SelectSeq(ls, LAMBDA l :
                                 /\ l.priority \in {"urgent", "critical"}
                                 /\ l.assigned_truck_id = NoTruck)
    IN  [k \in 1..Len(stuck) |->
            [id |-> "ISSUE-STUCK-" \o stuck[k].id, type |-> "stuck", severity |-> "high",
             affected_truck_ids |-> <<stuck[k].id>>, affected_load_ids |-> <<>>]]
        \o (IF Len(heavy_segments) > 2
            THEN <<[id |-> "ISSUE-TRAFFIC", type |-> "traffic", severity |-> "medium",
                    affected_truck_ids |-> <<>>, affected_load_ids |-> <<>>]>>
            ELSE <<>>)
        \o (IF unassigned_urgent # <<>>
            THEN <<[id |-> "ISSUE-LOAD", type |-> "capacity_mismatch", severity |-> "high",
                    affected_truck_ids |-> <<>>,
                    affected_load_ids |-> [k \in 1..Len(unassigned_urgent) |-> unassigned_urgent[k].id]]>>
            ELSE <<>>)

\* severity_order.get(i.severity, 2)
SeverityOrder(severity) ==
    CASE severity = "critical" -> 0
      [] severity = "high" -> 1
      [] severity = "medium" -> 2
      [] severity = "low" -> 3
      [] OTHER -> 2

\* _prioritize_issues
PrioritizeIssues(issues) ==
    SortedBy(issues, [k \in 1..Len(issues) |-> <<SeverityOrder(issues[k].severity), 0>>])

\* the issues of reasoning_node when every LLM call of the phase comes back
\* without success or parsed content: those of the fallback analysis (the
\* per-truck analyses add none), prioritized if more than one
FallbackIssues(s) ==
    LET issues == FallbackSituationAnalysis(s.trucks, s.traffic_conditions, s.loads)
    IN  IF Len(issues) > 1 THEN PrioritizeIssues(issues) ELSE issues

\* the initial state built by run_control_loop
InitialState(initial_trucks, cycles) ==
    [current_phase |-> "observe",
     trucks |-> initial_trucks,
     loads |-> <<>>,
     traffic_conditions |-> <<>>,
     current_issues |-> <<>>,
     scenarios |-> <<>>,
     comparison_matrix |-> NoMatrix,
     selected_decision |-> NoDecision,
     action_results |-> <<>>,
     continue_loop |-> (cycles > 1),
     requires_human_intervention |-> FALSE,
     error_message |-> NoError,
     total_cycles |-> 0]

\* observation_node, the try branch
ObservationDone(s, gps, traffic, ls) ==
    [s EXCEPT !.current_phase = "observe",
              !.trucks = [k \in 1..Len(s.trucks) |-> UpdateTruck(s.trucks[k], gps)],
              !.traffic_conditions = traffic,
              !.loads = ls,
              !.error_message = NoError]

\* observation_node, the except branch
ObservationFailed(s) ==
    [s EXCEPT !.current_phase = "observe",
              !.error_message = "Observation failed",
              !.continue_loop = FALSE]

\* reasoning_node, the try branch
ReasoningDone(s, issues) ==
    [s EXCEPT !.current_phase = "reason", !.current_issues = issues]

\* reasoning_node, the except branch
ReasoningFailed(s) ==
    [s EXCEPT !.current_phase = "reason",
              !.current_issues = <<>>,
              !.error_message = "Reasoning failed"]

\* planning_node, the try branch
PlanningDone(s) ==
    LET planned == PlanIssues(s.current_issues, s.trucks, s.loads,
                              [scenarios |-> <<>>, comparison_matrix |-> NoMatrix])
    IN  [s EXCEPT !.current_phase = "plan",
                  !.scenarios = planned.scenarios,
                  !.comparison_matrix = planned.comparison_matrix]

\* a planning_node whose except branch leaves error_message alone
PlanningFailed_Silent(s) ==
    [s EXCEPT !.current_phase = "plan",
              !.scenarios = <<>>,
              !.comparison_matrix = NoMatrix]

\* planning_node, the except branch
PlanningFailed(s) ==
    [s EXCEPT !.current_phase = "plan",
              !.scenarios = <<>>,
              !.comparison_matrix = NoMatrix,
              !.error_message = "Planning failed"]

\* planning_node raises inside its try block
PlanningRaises(s) ==
    \E k \in 1..Len(s.current_issues) : GenerateRaises(s.current_issues[k], s.trucks, s.loads)

\* decision_node, the try branch, with the default DecisionEvaluator
DecisionDone(s) ==
    LET result == EvaluateScenarios(s.scenarios, s.comparison_matrix, 0)
    IN  [s EXCEPT !.current_phase = "decide",
                  !.selected_decision = result.selected_decision,
                  !.requires_human_intervention = result.requires_human_approval]

\* decision_node, the except branch
DecisionFailed(s) ==
    [s EXCEPT !.current_phase = "decide",
              !.selected_decision = NoDecision,
              !.error_message = "Decision failed"]

\* action_node
ActionDone(s) ==
    [s EXCEPT !.current_phase = "act",
              !.action_results =
                  IF s.selected_decision # NoDecision
                  THEN <<[decision_id |-> s.selected_decision.id, success |-> TRUE,
                          message |-> "Executed " \o s.selected_decision.action_type]>>
                  ELSE <<>>]

\* feedback_node
FeedbackDone(s) ==
    [s EXCEPT !.current_phase = "feedback", !.total_cycles = @ + 1]

\* a should_continue that looks at the approval flag before the error
ShouldContinue_HumanFirst(s) ==
    IF s.requires_human_intervention THEN "human"
    ELSE IF Truthy(s.error_message) THEN "stop"
    ELSE IF ~s.continue_loop THEN "stop"
    ELSE IF s.current_issues = <<>> THEN "stop"
    ELSE "continue"

\* should_continue
ShouldContinue(s) ==
    IF Truthy(s.error_message) THEN "stop"
    ELSE IF s.requires_human_intervention THEN "human"
    ELSE IF ~s.continue_loop THEN "stop"
    ELSE IF s.current_issues = <<>> THEN "stop"
    ELSE "continue"

\* a graph whose edge from decide skips act
Edge_SkipAct(n) ==
    CASE n = "observe" -> "reason"
      [] n = "reason" -> "plan"
      [] n = "plan" -> "decide"
      [] n = "decide" -> "feedback"
      [] n = "act" -> "feedback"

\* the edges added by graph.add_edge
Edge(n) ==
    CASE n = "observe" -> "reason"
      [] n = "reason" -> "plan"
      [] n = "plan" -> "decide"
      [] n = "decide" -> "act"
      [] n = "act" -> "feedback"

\* the conditional edges from feedback
ConditionalEdge(t) ==
    CASE t = "continue" -> "observe"
      [] t = "stop" -> "END"
      [] t = "human" -> "END"

-----------------------------------------------------------------------------
(* Specification of the control loop: run_control_loop(initial_trucks,     *)
(* max_cycles) invokes the graph; each action runs one node.               *)

InitLoop ==
    /\ max_cycles \in {1, 2}
    /\ fleet \in LoopFleets
    /\ moves = 0
    /\ state = InitialState(fleet, max_cycles)
    /\ node = "observe"
    /\ transition = "none"
    /\ raised = {}
    /\ cycle_trace = <<>>
    /\ outcome = "none"
    /\ AssignIdle
    /\ DecideIdle
    /\ RouteIdle
    /\ CreateIdle
    /\ TwoOptIdle
    /\ GenerateIdle
    /\ RequestIdle

\* a node other than feedback has returned new_state
NodeReturns(n, new_state, has_raised, result) ==
    /\ state' = new_state
    /\ outcome' = result
    /\ node' = Edge(n)
    /\ raised' = IF has_raised THEN raised \cup {n} ELSE raised
    /\ cycle_trace' = Append(cycle_trace, new_state.current_phase)
    /\ UNCHANGED <<transition, max_cycles, fleet, moves>>
    /\ UNCHANGED <<assignVars, decideVars, routeVars, createVars, twoOptVars, generateVars, requestVars>>

\* observe: the collectors return and the data is preprocessed
Observe ==
    /\ node = "observe"
    /\ state.total_cycles < MaxCycles
    /\ \E gps \in GpsOutcomes, traffic \in TrafficOutcomes, ls \in LoopLoadLists :
          /\ state' = ObservationDone(state, gps, traffic, ls)
          /\ cycle_trace' = <<ObservationDone(state, gps, traffic, ls).current_phase>>
    /\ outcome' = "collected"
    /\ node' = Edge("observe")
    /\ raised' = {}
    /\ transition' = "none"
    /\ UNCHANGED <<max_cycles, fleet, moves>>
    /\ UNCHANGED <<assignVars, decideVars, routeVars, createVars, twoOptVars, generateVars, requestVars>>

\* observe: collect_all raises because one or all of the collectors raise
ObserveFails ==
    /\ node = "observe"
    /\ state.total_cycles < MaxCycles
    /\ outcome' \in CollectorFailures
    /\ state' = ObservationFailed(state)
    /\ cycle_trace' = <<ObservationFailed(state).current_phase>>
    /\ node' = Edge("observe")
    /\ raised' = {"observe"}
    /\ transition' = "none"
    /\ UNCHANGED <<max_cycles, fleet, moves>>
    /\ UNCHANGED <<assignVars, decideVars, routeVars, createVars, twoOptVars, generateVars, requestVars>>

\* reason: the LLM answers and the analyses return some list of issues
Reason ==
    /\ node = "reason"
    /\ \E issues \in IssueLists :
          NodeReturns("reason", ReasoningDone(state, issues), FALSE, "llm_ok")

\* reason: the LLM calls come back without success or parsed content
ReasonFallback ==
    /\ node = "reason"
    /\ \E mode \in LLMFallbackModes :
          NodeReturns("reason", ReasoningDone(state, FallbackIssues(state)), FALSE, mode)

\* reason: the LLM call of an analysis raises
ReasonFails ==
    /\ node = "reason"
    /\ \E mode \in LLMRaisingModes :
          NodeReturns("reason", ReasoningFailed(state), TRUE, mode)

\* plan: scenarios are generated for the issues, or the generation raises
Plan ==
    /\ node = "plan"
    /\ IF PlanningRaises(state)
       THEN NodeReturns("plan", PlanningFailed(state), TRUE, "none")
       ELSE NodeReturns("plan", PlanningDone(state), FALSE, "none")

\* decide: the evaluator returns
Decide ==
    /\ node = "decide"
    /\ NodeReturns("decide", DecisionDone(state), FALSE, "none")

\* decide: the evaluator raises
DecideFails ==
    /\ node = "decide"
    /\ NodeReturns("decide", DecisionFailed(state), TRUE, "none")

Act ==
    /\ node = "act"
    /\ NodeReturns("act", ActionDone(state), FALSE, "none")

\* feedback, then should_continue on the state it returned
Feedback ==
    /\ node = "feedback"
    /\ state' = FeedbackDone(state)
    /\ transition' = ShouldContinue(FeedbackDone(state))
    /\ node' = ConditionalEdge(ShouldContinue(FeedbackDone(state)))
    /\ cycle_trace' = Append(cycle_trace, FeedbackDone(state).current_phase)
    /\ outcome' = "none"
    /\ UNCHANGED <<raised, max_cycles, fleet, moves>>
    /\ UNCHANGED <<assignVars, decideVars, routeVars, createVars, twoOptVars, generateVars, requestVars>>

NextLoop ==
    \/ Observe \/ ObserveFails
    \/ Reason \/ ReasonFallback \/ ReasonFails
    \/ Plan
    \/ Decide \/ DecideFails
    \/ Act
    \/ Feedback

SpecLoop == InitLoop /\ [][NextLoop]_vars

-----------------------------------------------------------------------------
(* The control loop running concurrently with the position update loop of  *)
(* SimulationService (src/src/api/services/simulation.py), which moves the *)
(* Truck objects that were passed to run_control_loop as initial_trucks.   *)

\* the random movement of one iteration, in units of the location grid
Movements == {-1, 1}

\* truck.status == TruckStatus.EN_ROUTE and truck.current_location
IsMoving(t) == t.status = "en_route" /\ t.current_location # NoLoc

\* the body of the loop over state_manager.trucks
MovedFleet(f, change) ==
    [k \in 1..Len(f) |->
        IF IsMoving(f[k])
        THEN [f[k] EXCEPT !.current_location = @ + change]
        ELSE f[k]]

\* an AgentState whose trucks are the shared Truck objects themselves
SharedWith_LiveReference(s, f) == [s EXCEPT !.trucks = f]

\* the AgentState after the shared Truck objects have changed to f: the
\* state holds the dicts made by model_dump(), not the objects
SharedWith(s, f) == s

\* one iteration of _position_update_loop, taken between two nodes of a cycle
PositionUpdate ==
    /\ node \in {"reason", "plan", "decide", "act", "feedback"}
    /\ moves < MaxMoves
    /\ \E k \in 1..Len(fleet) : IsMoving(fleet[k])
    /\ \E change \in Movements :
          /\ fleet' = MovedFleet(fleet, change)
          /\ state' = SharedWith(state, MovedFleet(fleet, change))
    /\ moves' = moves + 1
    /\ UNCHANGED <<node, transition, max_cycles, raised, cycle_trace, outcome>>
    /\ UNCHANGED <<assignVars, decideVars, routeVars, createVars, twoOptVars, generateVars, requestVars>>

NextSnapshot == NextLoop \/ PositionUpdate

SpecSnapshot == InitLoop /\ [][NextSnapshot]_vars

-----------------------------------------------------------------------------
(* Properties of the control loop *)

\* should_continue has been evaluated for the current cycle
AtTransition == transition # "none"

\* C3: if OBSERVE, REASON, PLAN or DECIDE raised in a cycle, error_message is
\* non-empty from then on in that cycle, and when should_continue is
\* evaluated after FEEDBACK it returns 'stop' and the graph ends: no further
\* OBSERVE is started.
C3_ErrorStops ==
    raised # {} =>
        /\ Truthy(state.error_message)
        /\ AtTransition => (transition = "stop" /\ node = "END")

\* C3 witness: the scenario generation (PLAN) raised, and the cycle has
\* reached the evaluation of should_continue
C3_Witness == "plan" \in raised /\ AtTransition /\ transition = "stop"

\* C4: when a cycle in which no phase raised ends with zero current issues,
\* the transition chosen at FEEDBACK is 'stop' (not 'human', not 'continue')
\* and the loop ends.
C4_ZeroIssuesStop ==
    (AtTransition /\ raised = {} /\ state.current_issues = <<>>) =>
        (transition = "stop" /\ node = "END")

\* C5: should_continue returns the first rule that applies, in the order
\* error_message set -> 'stop', requires_human_intervention -> 'human',
\* continue_loop false -> 'stop', no current issues -> 'stop', otherwise
\* 'continue'; only 'continue' leads back to observe, 'stop' and 'human'
\* end the run.
C5_TransitionPriority ==
    AtTransition =>
        LET error == Truthy(state.error_message)
            human == state.requires_human_intervention
            flag == state.continue_loop
            issues == state.current_issues # <<>>
        IN  /\ error => transition = "stop"
            /\ (~error /\ human) => transition = "human"
            /\ (~error /\ ~human /\ ~flag) => transition = "stop"
            /\ (~error /\ ~human /\ flag /\ ~issues) => transition = "stop"
            /\ (~error /\ ~human /\ flag /\ issues) => transition = "continue"
            /\ transition = "continue" => node = "observe"
            /\ transition \in {"stop", "human"} => node = "END"

\* C5 witness: a state with an error and the approval flag both set, for
\* which should_continue returned 'stop'
C5_Witness ==
    /\ AtTransition
    /\ Truthy(state.error_message)
    /\ state.requires_human_intervention
    /\ transition = "stop"

IsPrefix(s, t) == Len(s) <= Len(t) /\ \A k \in 1..Len(s) : s[k] = t[k]

\* C8: in every run the phases of a cycle run once each in the order
\* OBSERVE, REASON, PLAN, DECIDE, ACT, FEEDBACK: every step either runs the
\* next phase of the current cycle, or starts the OBSERVE of a new cycle,
\* and that only when all six phases of the previous cycle have run and
\* should_continue returned 'continue'.
C8_PhaseOrder ==
    [][ \/ /\ Len(cycle_trace) < Len(PhaseOrder)
           /\ cycle_trace' = Append(cycle_trace, PhaseOrder[Len(cycle_trace) + 1])
           /\ IsPrefix(cycle_trace, PhaseOrder)
        \/ /\ cycle_trace = PhaseOrder
           /\ transition = "continue"
           /\ cycle_trace' = <<"observe">> ]_vars

\* C8 witness: a second cycle has run all its phases
C8_Witness == cycle_trace = PhaseOrder /\ state.total_cycles = 2

\* C12: run_control_loop(initial_trucks, max_cycles) runs at most max_cycles
\* cycles: whenever the graph has ended, total_cycles of the returned state
\* does not exceed max_cycles.
C12_CycleBound ==
    node = "END" => state.total_cycles <= max_cycles

\* C13: if a phase of a cycle recorded an error_message, ACT of that cycle
\* executes no decision: once ACT has run, action_results holds no successful
\* action result.
C13_NoActionAfterError ==
    (Truthy(state.error_message) /\ state.current_phase \in {"act", "feedback"}) =>
        \A k \in 1..Len(state.action_results) : ~state.action_results[k].success

\* C17: when no truck is eligible or every load already has an
\* assigned_truck_id, assign_loads_to_trucks returns for every strategy value
\* the empty solution: no assignments, total_cost 0, utilization_rate 0,
\* on_time_probability 1, and unassigned_loads lists exactly the loads
\* without assigned_truck_id; in particular for the call made again after
\* all loads of a solution were marked assigned.
C17_EmptyShortCircuit ==
    (strategy # "" /\ (AvailableTrucks(trucks) = <<>> \/ UnassignedLoads(loads) = <<>>)) =>
        /\ assign_exc = "none"
        /\ solution.assignments = <<>>
        /\ solution.total_cost = 0
        /\ solution.utilization_rate[1] = 0
        /\ solution.on_time_probability[1] = 10 * solution.on_time_probability[2]
        /\ solution.unassigned_loads =
              [k \in 1..Len(UnassignedLoads(loads)) |-> UnassignedLoads(loads)[k].id]

\* C17 witness: the call was made again after the loads of a solution were
\* marked assigned
C17_Witness == rerun /\ loads # <<>> /\ UnassignedLoads(loads) = <<>> /\ solution.assignments = <<>>

\* C20: under strategy greedy the loads are processed most urgent first:
\* when a single eligible truck is feasible for several considered loads and
\* one of them has a strictly higher priority than all the others, that load
\* receives the truck and the other loads are left unassigned.
C20_GreedyUrgentFirst ==
    (strategy = "greedy" /\ ~rerun /\ Len(AvailableTrucks(trucks)) = 1) =>
        LET truck == AvailableTrucks(trucks)[1]
            feasible == {l \in Range(UnassignedLoads(loads)) : CheckAssignmentConstraints(truck, l)}
        IN  \A l1 \in feasible :
                (\A l2 \in feasible \ {l1} :
                    PriorityToNumeric(l1.priority) > PriorityToNumeric(l2.priority))
                => /\ l1.id \in AssignedLoadIds(solution.assignments)
                   /\ \A l2 \in feasible \ {l1} : l2.id \in Range(solution.unassigned_loads)

-----------------------------------------------------------------------------
(* Specification of the places that create Decision objects:               *)
(* DecisionEvaluator.evaluate_scenarios (src/src/decision/evaluator.py)    *)
(* and SimulationService._decision_generation_loop                         *)
(* (src/src/api/services/simulation.py).                                   *)

\* a Decision built without a source scenario
NoReliability == -1

\* no Decision has been created yet
NoCreated == [decision |-> NoDecision, reliability |-> NoReliability, origin |-> "none"]

\* the values random.uniform(0.7, 0.99) and random.uniform(0.75, 0.98) are
\* drawn from, in thousandths
SampleScores == {700, 850, 990}
SampleConfidences == {750, 900, 980}

\* the Decision of one iteration of _decision_generation_loop
SampleDecision(decision_counter, action_type, score, confidence) ==
    [id |-> "DEC-" \o ToString(decision_counter),
     scenario_id |-> "SCN-" \o ToString(decision_counter),
     action_type |-> action_type,
     score |-> score,
     confidence |-> confidence]

InitCreate ==
    /\ created = NoCreated
    /\ AssignIdle
    /\ DecideIdle
    /\ RouteIdle
    /\ LoopIdle
    /\ TwoOptIdle
    /\ GenerateIdle
    /\ RequestIdle

\* evaluate_scenarios builds the Decision of one of its scenarios
CreateByEvaluator ==
    /\ \E scs \in ScenarioLists \ {<<>>} :
       \E k \in 1..Len(scs) :
       \E comparison_matrix \in {NoMatrix, CompareScenarios(scs)} :
          created' = [decision |-> MakeDecision(scs[k], comparison_matrix),
                      reliability |-> scs[k].reliability_score,
                      origin |-> "evaluator"]
    /\ UNCHANGED <<assignVars, decideVars, routeVars, loopVars, twoOptVars, generateVars, requestVars>>

\* one iteration of _decision_generation_loop while the control loop runs
CreateByGenerationLoop ==
    /\ \E action_type \in ActionTypes, score \in SampleScores, confidence \in SampleConfidences :
          created' = [decision |-> SampleDecision(1, action_type, score, confidence),
                      reliability |-> NoReliability,
                      origin |-> "generation_loop"]
    /\ UNCHANGED <<assignVars, decideVars, routeVars, loopVars, twoOptVars, generateVars, requestVars>>

NextCreate == CreateByEvaluator \/ CreateByGenerationLoop

SpecCreate == InitCreate /\ [][NextCreate]_vars

\* C11: every Decision created, by evaluate_scenarios or by the background
\* decision generation loop, has a source scenario and a confidence equal to
\* round(score * reliability_score of that scenario, 3).
C11_ConfidenceIdentity ==
    created # NoCreated =>
        /\ created.reliability # NoReliability
        /\ created.decision.confidence
              = RoundDiv(created.decision.score * created.reliability, 100)

\* C14: whenever the LLM call made in REASON fails (client not configured,
\* unexpected error, unparseable JSON, rate limit, API error after the
\* retries), REASON completes without raising, current_issues holds the
\* issues of the rule-based fallback analysis, and REASON sets no
\* error_message.
C14_ReasonFallsBack ==
    (node = "plan" /\ outcome \in LLMFailures) =>
        /\ "reason" \notin raised
        /\ state.error_message # "Reasoning failed"
        /\ state.current_issues = FallbackIssues(state)

\* C15: if exactly one of the GPS, traffic and load collectors fails during
\* OBSERVE, OBSERVE completes without raising, sets no error_message, leaves
\* continue_loop as run_control_loop set it, and the cycle proceeds to REASON.
C15_PartialObservation ==
    (node = "reason" /\ outcome \in SingleCollectorFailures) =>
        /\ "observe" \notin raised
        /\ state.error_message = NoError
        /\ state.continue_loop = (max_cycles > 1)

-----------------------------------------------------------------------------
(* RouteOptimizer._two_opt_improve (src/src/algorithms/route_optimizer.py) *)
(* as a function of the seed tour and the distance matrix.  Stops are      *)
(* numbered from 0 as in the code; tours and matrix rows are sequences,    *)
(* so stop k is found at position k + 1.                                   *)

TourLen == 5            \* stops of the tours handed to 2-opt (the code requires more than 3)
MaxDistance == 2        \* the entries of the distance matrix are 1..MaxDistance

Stops == 0..(TourLen - 1)

\* the tours over all stops, each visited once
SeedTours ==
    {t \in [1..TourLen -> Stops] : \A a, b \in 1..TourLen : t[a] = t[b] => a = b}

\* the matrices of _calculate_distance_matrix: zero diagonal, symmetric
StopPairs == {p \in (1..TourLen) \X (1..TourLen) : p[1] < p[2]}

DistanceMatrices ==
    {[a \in 1..TourLen |-> [b \in 1..TourLen |->
          IF a = b THEN 0 ELSE IF a < b THEN d[<<a, b>>] ELSE d[<<b, a>>]]] :
        d \in [StopPairs -> 1..MaxDistance]}

\* tour_distance: the length of the closed tour
TourDistance(t, dm) ==
    SumSeq([i \in 1..Len(t) |-> dm[t[i] + 1][t[(i % Len(t)) + 1] + 1]])

\* tour[:i] + tour[i:j+1][::-1] + tour[j+1:]
TwoOptSwap(t, i, j) ==
    [k \in 1..Len(t) |-> IF i + 1 <= k /\ k <= j + 1 THEN t[i + j + 2 - k] ELSE t[k]]

\* the pairs (i, j) of the two for loops, in the order they are tried
RECURSIVE SwapPairsFrom(_, _, _)
SwapPairsFrom(i, j, n) ==
    IF i >= n THEN <<>>
    ELSE IF j >= n THEN SwapPairsFrom(i + 1, i + 3, n)
    ELSE <<<<i, j>>>> \o SwapPairsFrom(i, j + 1, n)

SwapPairs(n) == SwapPairsFrom(0, 2, n)

\* an acceptance test that takes the longer tour
Improves_Longer(new_distance, best_distance) == new_distance > best_distance

\* if new_distance < best_distance
Improves(new_distance, best_distance) == new_distance < best_distance

\* one pass of the for loops over the pairs still to try
RECURSIVE TwoOptPass(_, _, _)
TwoOptPass(st, pairs, dm) ==
    IF pairs = <<>> THEN st
    ELSE LET new_tour == TwoOptSwap(st.tour, Head(pairs)[1], Head(pairs)[2])
             new_distance == TourDistance(new_tour, dm)
         IN  TwoOptPass(IF Improves(new_distance, st.best_distance)
                        THEN [tour |-> new_tour, best_tour |-> new_tour,
                              best_distance |-> new_distance, improved |-> TRUE]
                        ELSE st,
                        Tail(pairs), dm)

\* the while loop: passes are repeated until one changes nothing
RECURSIVE TwoOptWhile(_, _)
TwoOptWhile(st, dm) ==
    LET after == TwoOptPass([st EXCEPT !.improved = FALSE], SwapPairs(Len(st.tour)), dm)
    IN  IF after.improved THEN TwoOptWhile(after, dm) ELSE after

\* _two_opt_improve(tour, distance_matrix)
TwoOptImprove(t, dm) ==
    TwoOptWhile([tour |-> t, best_tour |-> t,
                 best_distance |-> TourDistance(t, dm), improved |-> TRUE], dm).best_tour

InitTwoOpt ==
    /\ seed_tour \in SeedTours
    /\ tour_matrix \in DistanceMatrices
    /\ improved_tour = <<>>
    /\ AssignIdle
    /\ DecideIdle
    /\ RouteIdle
    /\ LoopIdle
    /\ CreateIdle
    /\ GenerateIdle
    /\ RequestIdle

\* the call _two_opt_improve(seed_tour, tour_matrix)
CallTwoOptImprove ==
    /\ improved_tour = <<>>
    /\ improved_tour' = TwoOptImprove(seed_tour, tour_matrix)
    /\ UNCHANGED <<seed_tour, tour_matrix>>
    /\ UNCHANGED <<assignVars, decideVars, routeVars, loopVars, createVars, generateVars, requestVars>>

NextTwoOpt == CallTwoOptImprove

SpecTwoOpt == InitTwoOpt /\ [][NextTwoOpt]_vars

\* C18: for every seed tour and distance matrix, _two_opt_improve returns a
\* permutation of the seed tour whose total tour distance under the matrix
\* is less than or equal to that of the seed tour.
C18_TwoOptMonotone ==
    improved_tour # <<>> =>
        /\ Len(improved_tour) = Len(seed_tour)
        /\ Range(improved_tour) = Range(seed_tour)
        /\ TourDistance(improved_tour, tour_matrix) <= TourDistance(seed_tour, tour_matrix)

\* C18 witness: a call whose result is strictly shorter than the seed tour
C18_Witness ==
    /\ improved_tour # <<>>
    /\ improved_tour # seed_tour
    /\ TourDistance(improved_tour, tour_matrix) < TourDistance(seed_tour, tour_matrix)

-----------------------------------------------------------------------------
(* Specification of a single call of ScenarioGenerator.generate_scenarios  *)
(* (src/src/planning/scenario_generator.py).                               *)

MaxRequested == 3       \* the values of max_scenarios tried are 0..MaxRequested and the default

\* the values of the argument max_scenarios
ScenarioLimits == (0..MaxRequested) \cup {DefaultMaxScenarios}

\* the fleets the generator is called with: those of the control loop,
\* before and after the GPS readings are applied
GeneratorFleets ==
    LoopFleets \cup {[k \in 1..Len(f) |-> UpdateTruck(f[k], "slow")] : f \in LoopFleets}

\* the issues the generator is called with: those of the control loop and a
\* capacity mismatch that names a load already assigned to a truck
GeneratorIssues ==
    {MkIssue(1, kind) : kind \in IssueKinds}
        \cup {MkIssue(1, [type |-> "capacity_mismatch", affected_truck_ids |-> <<"T1">>,
                          affected_load_ids |-> <<"L1">>])}

InitGenerate ==
    /\ gen_issue \in GeneratorIssues
    /\ gen_trucks \in GeneratorFleets
    /\ gen_loads \in LoopLoadLists
    /\ max_scenarios = -1
    /\ returned_scenarios = <<>>
    /\ generate_exc = "none"
    /\ AssignIdle
    /\ DecideIdle
    /\ RouteIdle
    /\ LoopIdle
    /\ CreateIdle
    /\ TwoOptIdle
    /\ RequestIdle

\* the call generate_scenarios(gen_issue, gen_trucks, gen_loads, ..., max_scenarios=limit)
CallGenerateScenarios ==
    /\ max_scenarios = -1
    /\ \E limit \in ScenarioLimits :
          /\ max_scenarios' = limit
          /\ IF GenerateRaises(gen_issue, gen_trucks, gen_loads)
             THEN /\ returned_scenarios' = <<>>
                  /\ generate_exc' = "raised"
             ELSE /\ returned_scenarios' = GenerateScenariosUpTo(gen_issue, gen_trucks, gen_loads, limit)
                  /\ generate_exc' = "none"
    /\ UNCHANGED <<gen_issue, gen_trucks, gen_loads>>
    /\ UNCHANGED <<assignVars, decideVars, routeVars, loopVars, createVars, twoOptVars, requestVars>>

NextGenerate == CallGenerateScenarios

SpecGenerate == InitGenerate /\ [][NextGenerate]_vars

\* C19: for every issue and every max_scenarios >= 0, generate_scenarios
\* returns at most max_scenarios scenarios, in non-increasing order of the
\* ranking score 0.3/(1 + time/60) + 0.2/(1 + cost/100) + 0.5 * reliability.
C19_LimitedAndRanked ==
    (max_scenarios >= 0 /\ generate_exc = "none") =>
        /\ Len(returned_scenarios) <= max_scenarios
        /\ \A k \in 1..(Len(returned_scenarios) - 1) :
              RankScore(returned_scenarios[k]) >= RankScore(returned_scenarios[k + 1])

\* C19 witness: a call that had more scenarios than the limit and returned
\* several of different score
C19_Witness ==
    /\ max_scenarios >= 2
    /\ generate_exc = "none"
    /\ Len(returned_scenarios) = max_scenarios
    /\ Len(GenerateScenariosUpTo(gen_issue, gen_trucks, gen_loads, DefaultMaxScenarios)) > max_scenarios
    /\ RankScore(returned_scenarios[1]) > RankScore(returned_scenarios[2])

-----------------------------------------------------------------------------
(* Further properties of the load assignment *)

\* the load an Assignment is about
LoadOfAssignment(a) == CHOOSE l \in Range(loads) : l.id = a.load_id

\* C21: under strategy priority_first the Assignments of urgent and critical
\* loads precede those of all other loads in the returned list, and the
\* urgent and critical loads are committed in ascending deadline order, the
\* loads without a deadline last.
C21_PriorityFirstOrder ==
    strategy = "priority_first" =>
        \A i, j \in 1..Len(solution.assignments) :
            i < j =>
                LET first == LoadOfAssignment(solution.assignments[i])
                    second == LoadOfAssignment(solution.assignments[j])
                IN  /\ IsCritical(second) => IsCritical(first)
                    /\ (IsCritical(first) /\ IsCritical(second)) =>
                           DeadlineKey(first) <= DeadlineKey(second)

\* C21 witness: an urgent load given after a normal load is committed first
C21_Witness ==
    /\ strategy = "priority_first"
    /\ Len(loads) >= 2
    /\ Len(solution.assignments) >= 2
    /\ ~IsCritical(loads[1])
    /\ IsCritical(loads[2])
    /\ solution.assignments[1].load_id = loads[2].id
    /\ solution.assignments[2].load_id = loads[1].id

-----------------------------------------------------------------------------
(* Further properties of generate_scenarios *)

\* the call has been made with the default max_scenarios
CalledWithDefault == max_scenarios = DefaultMaxScenarios

\* C22: for an issue of type stuck about a truck of the fleet, whenever the
\* fleet contains a truck other than the affected truck with status idle or
\* en_route, generate_scenarios
\* with the default max_scenarios completes without error and its result
\* contains a scenario whose first action is a reassign.
C22_StuckOffersReassign ==
    (/\ CalledWithDefault
     /\ gen_issue.type = "stuck"
     /\ GetAffectedTruck(gen_issue, gen_trucks) # NoneTruck
     /\ ReassignCandidates(GetAffectedTruck(gen_issue, gen_trucks), gen_trucks) # <<>>) =>
        /\ generate_exc = "none"
        /\ \E k \in 1..Len(returned_scenarios) : returned_scenarios[k].actions[1] = "reassign"

\* the truck and the load named by the action of the DISPATCH scenario of
\* _generate_capacity_scenarios: available_trucks[0] and unassigned_loads[0]
DispatchPair(issue, ts, ls) ==
    LET unassigned_loads == SelectSeq(ls, LAMBDA l :
                                l.id \in Range(issue.affected_load_ids) \/ l.assigned_truck_id = NoTruck)
        available_trucks == SelectSeq(ts, LAMBDA t : t.status = "idle")
    IN  [truck |-> available_trucks[1], load |-> unassigned_loads[1]]

\* some scenario of the result has an action of this type first
Offers(action_type) ==
    \E k \in 1..Len(returned_scenarios) : returned_scenarios[k].actions[1] = action_type

\* C23: for an issue of type capacity_mismatch (and max_scenarios >= 1): if an
\* idle truck and an unassigned load exist, the result contains a dispatch
\* scenario that pairs an idle truck with an unassigned load; if no truck is
\* idle, the result contains an escalate scenario.
C23_CapacityScenarios ==
    (max_scenarios >= 1 /\ generate_exc = "none" /\ gen_issue.type = "capacity_mismatch") =>
        LET idle == SelectSeq(gen_trucks, LAMBDA t : t.status = "idle")
        IN  /\ (idle # <<>> /\ UnassignedLoads(gen_loads) # <<>>) =>
                  /\ Offers("dispatch")
                  /\ DispatchPair(gen_issue, gen_trucks, gen_loads).truck.status = "idle"
                  /\ DispatchPair(gen_issue, gen_trucks, gen_loads).load.assigned_truck_id = NoTruck
            /\ idle = <<>> => Offers("escalate")

-----------------------------------------------------------------------------
(* Further properties of the control loop *)

\* the primitive actions of the scenario the selected decision was made for
SelectedActions(s) ==
    FirstWithId(s.scenarios, s.selected_decision.scenario_id, [actions |-> <<>>]).actions

\* C24: the ACT phase of a cycle with a selected decision adds one
\* ActionResult per primitive action of the selected decision's scenario to
\* the results already in action_results; without a selected decision it
\* adds nothing.
C24_OneResultPerAction ==
    [][(node = "act") =>
          IF state.selected_decision # NoDecision
          THEN /\ Len(state'.action_results)
                     = Len(state.action_results) + Len(SelectedActions(state))
               /\ IsPrefix(state.action_results, state'.action_results)
          ELSE state'.action_results = state.action_results]_vars

C26_NoExecutionBeforeApproval ==
    (transition = "human") =>
        \A k \in 1..Len(state.action_results) :
            ~(/\ state.action_results[k].success
              /\ state.selected_decision # NoDecision
              /\ state.action_results[k].decision_id = state.selected_decision.id)

\* the eligible trucks of the call that hold no Assignment of the solution
FreeTrucks ==
    SelectSeq(AvailableTrucks(trucks),
              LAMBDA t : t.id \notin AssignedTruckIds(solution.assignments))

\* the loads the call considered whose id is in solution.unassigned_loads
LeftLoads ==
    SelectSeq(UnassignedLoads(loads),
              LAMBDA l : l.id \in Range(solution.unassigned_loads))

\* C27: the solutions of the optimal and greedy strategies are maximal:
\* after the call no eligible truck without an Assignment and load listed in
\* unassigned_loads remain for which _check_assignment_constraints is true.
C27_Maximal ==
    (strategy \in {"optimal", "greedy"} /\ assign_exc = "none" /\ solution # NoSolution) =>
        \A i \in 1..Len(FreeTrucks) : \A j \in 1..Len(LeftLoads) :
            ~CheckAssignmentConstraints(FreeTrucks[i], LeftLoads[j])

\* C27 witness: a call that assigned a load and left both a truck and a load
C27_Witness ==
    /\ strategy \in {"optimal", "greedy"}
    /\ solution # NoSolution
    /\ solution.assignments # <<>>
    /\ FreeTrucks # <<>>
    /\ LeftLoads # <<>>

-----------------------------------------------------------------------------
(* src/src/api/services/request_processor.py and the cancel route of      *)
(* src/src/api/routes/requests.py.  The task created by process_request   *)
(* runs on the event loop of the API: it gives up control only where an   *)
(* await suspends (the two geocoder calls in a thread and the websocket   *)
(* send), and cancel_request, which has no await before its return, runs  *)
(* as a whole between two such pieces.  Of the request the model keeps    *)
(* the fields the status, the load and the truck depend on.               *)

\* is_in_nyc_region, on the meridian of the model
InServiceArea(loc) == loc >= 0 /\ loc <= 60

FallbackPickup == 30        \* Location(latitude=40.7128, longitude=-74.0060)
FallbackDelivery == 35      \* Location(latitude=40.7589, longitude=-73.9851)
NearbyOffset == 1           \* latitude + 0.01, longitude + 0.01: "~1km offset"

GeocoderRaises == -2        \* self.geocoder.geocode raises

\* what self.geocoder.geocode gives: a place, None, or an exception
GeocodeResults == {0, 30, 90, NoLoc, GeocoderRaises}

\* the requests submitted
RequestKinds ==
    { [weight_kg |-> 4, priority |-> "normal", pickup_location |-> 0, delivery_location |-> 30,
       delivery_deadline |-> NoDeadline],
      [weight_kg |-> 4, priority |-> "urgent", pickup_location |-> NoLoc, delivery_location |-> NoLoc,
       delivery_deadline |-> 240],
      [weight_kg |-> 20, priority |-> "normal", pickup_location |-> 0, delivery_location |-> NoLoc,
       delivery_deadline |-> NoDeadline] }

\* submit_request: the DeliveryRequest stored, in PENDING status
SubmitRequest(request_data) ==
    [status |-> "pending", assigned_truck_id |-> NoTruck, assigned_load_id |-> NoLoad] @@ request_data

\* _geocode_addresses after the geocoder calls: the service-area check and
\* the fallbacks for the locations still missing
GeocodeFallback(r) ==
    IF \/ (r.pickup_location # NoLoc /\ ~InServiceArea(r.pickup_location))
       \/ (r.delivery_location # NoLoc /\ ~InServiceArea(r.delivery_location))
    THEN [r EXCEPT !.pickup_location = FallbackPickup, !.delivery_location = FallbackDelivery]
    ELSE IF r.pickup_location = NoLoc /\ r.delivery_location = NoLoc
    THEN [r EXCEPT !.pickup_location = FallbackPickup, !.delivery_location = FallbackDelivery]
    ELSE IF r.pickup_location = NoLoc
    THEN [r EXCEPT !.pickup_location = r.delivery_location + NearbyOffset]
    ELSE IF r.delivery_location = NoLoc
    THEN [r EXCEPT !.delivery_location = r.pickup_location + NearbyOffset]
    ELSE r

\* temp_load of _allocate_truck
TempLoad(r) ==
    [id |-> "TEMP", weight_kg |-> r.weight_kg, priority |-> r.priority,
     pickup_location |-> r.pickup_location, delivery_location |-> r.delivery_location,
     delivery_deadline |-> r.delivery_deadline, assigned_truck_id |-> NoTruck]

\* _allocate_truck up to the assignment of request.assigned_truck_id
AllocateTruck(r, ts) ==
    LET available_trucks ==
            SelectSeq(ts, LAMBDA t : t.status \in EligibleStatus /\ t.capacity_kg >= r.weight_kg)
        sol == AssignLoadsToTrucks(available_trucks, <<TempLoad(r)>>, "optimal")[1]
    IN  IF available_trucks = <<>> THEN r
        ELSE IF sol.assignments # <<>>
        THEN [r EXCEPT !.assigned_truck_id = sol.assignments[1].truck_id]
        ELSE r

\* load_id of _create_load_assignment: a fresh id
NewLoadId(ls) == "LOAD-" \o ToString(Len(ls) + 1)

\* _create_load_assignment: <<request, state_manager.trucks, state_manager.loads>>
CreateLoadAssignment(r, ts, ls) ==
    IF r.assigned_truck_id = NoTruck \/ r.pickup_location = NoLoc \/ r.delivery_location = NoLoc
    THEN <<r, ts, ls>>
    ELSE LET load_id == NewLoadId(ls)
             load == [id |-> load_id, weight_kg |-> r.weight_kg, priority |-> r.priority,
                      pickup_location |-> r.pickup_location,
                      delivery_location |-> r.delivery_location,
                      delivery_deadline |-> r.delivery_deadline,
                      assigned_truck_id |-> r.assigned_truck_id]
             truck == FirstWithId(ts, r.assigned_truck_id, NoneTruck)
         IN  <<[r EXCEPT !.assigned_load_id = load_id],
               [i \in 1..Len(ts) |->
                    IF ts[i] = truck /\ truck.status = "idle"
                       /\ \A k \in 1..(i-1) : ts[k].id # truck.id
                    THEN [current_load_id |-> load_id] @@ [ts[i] EXCEPT !.status = "en_route"]
                    ELSE ts[i]],
               Append(ls, load)>>

\* the end of _process_request: ASSIGNED with a truck, FAILED without
FinalStatus(r) ==
    [r EXCEPT !.status = IF r.assigned_truck_id # NoTruck THEN "assigned" ELSE "failed"]

\* _process_request from step 4 to its end:
\* <<request, state_manager.trucks, state_manager.loads, task>>
RunFromStep4(r, ts, ls) ==
    LET c == CreateLoadAssignment(r, ts, ls)
    IN  <<FinalStatus(c[1]), c[2], c[3], "done">>

\* _process_request from the end of the geocoder calls up to the next await
\* that suspends (the websocket send of _notify_truck_assignment) or to its
\* end
RunFromFallback(r, ts, ls, connected) ==
    LET allocated == AllocateTruck(GeocodeFallback(r), ts)
    IN  IF allocated.assigned_truck_id # NoTruck /\ connected
        THEN <<allocated, ts, ls, "broadcast">>
        ELSE RunFromStep4(allocated, ts, ls)

\* _process_request from the second geocoder test on
RunFromDeliveryTest(r, ts, ls, connected) ==
    IF r.delivery_location = NoLoc THEN <<r, ts, ls, "geocode_delivery">>
    ELSE RunFromFallback(r, ts, ls, connected)

\* _process_request from its first statement to the first await that suspends
RunFromStart(r, ts, ls, connected) ==
    LET processing == [r EXCEPT !.status = "processing"]
    IN  IF r.pickup_location = NoLoc THEN <<processing, ts, ls, "geocode_pickup">>
        ELSE RunFromDeliveryTest(processing, ts, ls, connected)

-----------------------------------------------------------------------------
(* Specification of a delivery request: it was submitted, process_request *)
(* may create its task, the task runs piece by piece, and cancel_request  *)
(* may be served between any two pieces.                                  *)

InitRequest ==
    /\ request \in {SubmitRequest(k) : k \in RequestKinds}
    /\ task = "none"
    /\ sm_trucks \in TruckLists
    /\ sm_loads = <<>>
    /\ ws_connected \in BOOLEAN
    /\ AssignIdle
    /\ DecideIdle
    /\ RouteIdle
    /\ LoopIdle
    /\ CreateIdle
    /\ TwoOptIdle
    /\ GenerateIdle

\* the task reaches its next suspension or its end
TaskRuns(to) ==
    /\ request' = to[1]
    /\ sm_trucks' = to[2]
    /\ sm_loads' = to[3]
    /\ task' = to[4]
    /\ UNCHANGED ws_connected
    /\ UNCHANGED <<assignVars, decideVars, routeVars, loopVars, createVars, twoOptVars, generateVars>>

\* process_request: a PENDING request gets its task
ProcessRequest ==
    /\ request.status = "pending"
    /\ task = "none"
    /\ task' = "scheduled"
    /\ UNCHANGED <<request, sm_trucks, sm_loads, ws_connected>>
    /\ UNCHANGED <<assignVars, decideVars, routeVars, loopVars, createVars, twoOptVars, generateVars>>

\* the event loop runs the task for the first time
TaskStarts ==
    /\ task = "scheduled"
    /\ TaskRuns(RunFromStart(request, sm_trucks, sm_loads, ws_connected))

\* the geocoder call for the pickup address is over
PickupGeocoded ==
    /\ task = "geocode_pickup"
    /\ \E res \in GeocodeResults :
          TaskRuns(IF res = GeocoderRaises
                   THEN RunFromFallback(request, sm_trucks, sm_loads, ws_connected)
                   ELSE RunFromDeliveryTest([request EXCEPT !.pickup_location = res],
                                            sm_trucks, sm_loads, ws_connected))

\* the geocoder call for the delivery address is over
DeliveryGeocoded ==
    /\ task = "geocode_delivery"
    /\ \E res \in GeocodeResults :
          TaskRuns(RunFromFallback(
                       IF res = GeocoderRaises THEN request
                       ELSE [request EXCEPT !.delivery_location = res],
                       sm_trucks, sm_loads, ws_connected))

\* the websocket send of the assignment notification is over
BroadcastDone ==
    /\ task = "broadcast"
    /\ TaskRuns(RunFromStep4(request, sm_trucks, sm_loads))

\* cancel_request for a request that is PENDING or PROCESSING
CancelRequest ==
    /\ request.status \in {"pending", "processing"}
    /\ request' = [request EXCEPT !.status = "cancelled"]
    /\ UNCHANGED <<task, sm_trucks, sm_loads, ws_connected>>
    /\ UNCHANGED <<assignVars, decideVars, routeVars, loopVars, createVars, twoOptVars, generateVars>>

NextRequest ==
    \/ ProcessRequest
    \/ TaskStarts
    \/ PickupGeocoded
    \/ DeliveryGeocoded
    \/ BroadcastDone
    \/ CancelRequest

SpecRequest == InitRequest /\ [][NextRequest]_vars

\* the status of every truck of state_manager.trucks
TruckStatuses(ts) == [i \in 1..Len(ts) |-> ts[i].status]

\* C28: once cancel_request has set the request to CANCELLED while the task
\* of _process_request, started before, stands at an await, the request
\* stays CANCELLED: the task sets no other status afterwards, creates no
\* load and changes no truck's status.
C28_CancelledStays ==
    [][(request.status = "cancelled" /\ task \in {"geocode_pickup", "geocode_delivery", "broadcast"}) =>
          (/\ request'.status = "cancelled"
           /\ sm_loads' = sm_loads
           /\ TruckStatuses(sm_trucks') = TruckStatuses(sm_trucks))]_vars

\* C29: for every issue and every max_scenarios >= 1, a call of
\* generate_scenarios that returns hands back at least one scenario.
C29_NeverEmpty ==
    (max_scenarios >= 1 /\ generate_exc = "none") => returned_scenarios # <<>>

\* the scenarios produced for the call before the cut to max_scenarios
AllCandidates == ScenarioCandidates(gen_issue, gen_trucks, gen_loads)

\* the candidates of the call that were not returned
Dropped ==
    SelectSeq(AllCandidates,
              LAMBDA c : \A k \in 1..Len(returned_scenarios) : returned_scenarios[k].id # c.id)

\* C30: when the generators produce more candidates than max_scenarios, the
\* scenarios returned are the top-ranked ones: no candidate that was dropped
\* has a strictly higher ranking score than a scenario that was returned.
C30_TopRankedKept ==
    (max_scenarios >= 0 /\ generate_exc = "none" /\ Len(AllCandidates) > max_scenarios) =>
        \A d \in 1..Len(Dropped) : \A k \in 1..Len(returned_scenarios) :
            ~(RankScore(Dropped[d]) > RankScore(returned_scenarios[k]))

=============================================================================
